---- MODULE Spec2Model ----
(***************************************************************************)
(* A model of the Paren kernel (libparen): tokenizer, reader, symbol       *)
(* interning, environments, the macro/compile pass, the tree-walking       *)
(* evaluator and the primitives the checked properties exercise.           *)
(*                                                                         *)
(* Values live in a heap of Node cells; an snode (std::shared_ptr<Node>)   *)
(* is a heap address (1-based index into heap).  Environment frames live   *)
(* in `frames`; an senvironment is a frame id, 0 is the null pointer.      *)
(* Source text and v_string are TLA+ strings; a character is a string of   *)
(* length one, read with SubSeq.                                           *)
(***************************************************************************)
EXTENDS Integers, Sequences, FiniteSets, TLC

(***************************************************************************)
(* Bounds of the model.                                                    *)
(***************************************************************************)
\* number of eval_string calls in one behaviour
MaxEvals == 2

\* number of threads one behaviour spawns
MaxThreads == 2

\* steps the evaluator takes between two observations of a long call
SliceSteps == 64
\* largest argument of the Fibonacci scenario
MaxFib == 10

\* steps of the evaluator within one eval_string call
MaxSteps == 100000

\* length of the buffers given to the tokenizer on its own
MaxBuf == 3

\* length of the lists that are printed and read back
MaxList == 2

\* number of calls of ToCode from outside the reader
MaxCalls == 3

\* number of operands given to an arithmetic primitive
MaxOperands == 2

\* number of imports given to the ahead-of-time path
MaxImports == 2

\* number of command-line arguments after the program name
MaxArgs == 5

\* Stands for SIZE_MAX, the value of `s.length() - 1` on an empty buffer.
\* It is only ever compared with buffer positions.
SIZE_MAX == 2147483647

(***************************************************************************)
(* Characters and strings.                                                 *)
(***************************************************************************)
\* s.at(pos) / s[pos] with the code's 0-based positions
At(s, pos) == SubSeq(s, pos + 1, pos + 1)

Digits == <<"0", "1", "2", "3", "4", "5", "6", "7", "8", "9">>

isdigit(c) == \E i \in 1..10 : Digits[i] = c

DigitVal(c) == (CHOOSE i \in 1..10 : Digits[i] = c) - 1

\* std::string::find(ch) != npos
RECURSIVE Contains(_, _)
Contains(s, ch) ==
  IF Len(s) = 0 THEN FALSE
  ELSE IF At(s, 0) = ch THEN TRUE ELSE Contains(Tail(s), ch)

\* the digits-accumulating loop of atoi: stops at the first non-digit
RECURSIVE AtoiDigits(_, _, _)
AtoiDigits(s, pos, acc) ==
  IF pos < Len(s) /\ isdigit(At(s, pos))
  THEN AtoiDigits(s, pos + 1, acc * 10 + DigitVal(At(s, pos)))
  ELSE acc

\* atoi on a token (tokens never start with whitespace)
atoi(s) ==
  IF Len(s) > 0 /\ At(s, 0) = "-" THEN 0 - AtoiDigits(s, 1, 0)
  ELSE IF Len(s) > 0 /\ At(s, 0) = "+" THEN AtoiDigits(s, 1, 0)
  ELSE AtoiDigits(s, 0, 0)

\* sprintf(buf, "%d", v) for a non-negative v
RECURSIVE UIntToStr(_)
UIntToStr(v) ==
  IF v < 10 THEN Digits[v + 1]
  ELSE UIntToStr(v \div 10) \o Digits[(v % 10) + 1]

\* a conversion that drops the sign
IntToStrUnsigned(v) == UIntToStr(IF v < 0 THEN 0 - v ELSE v)

IntToStr(v) == IF v < 0 THEN "-" \o UIntToStr(0 - v) ELSE UIntToStr(v)

(***************************************************************************)
(* Doubles are modelled in fixed point: a double d is the integer          *)
(* d * DScale, truncated.                                                  *)
(***************************************************************************)
DScale == 1000

\* the digit loop of atof.  acc is the digits read so far as one integer and
\* nf the number of digits read after the point (-1 before the point);
\* digits beyond the precision of the representation are dropped.
RECURSIVE AtofDigits(_, _, _, _)
AtofDigits(s, pos, acc, nf) ==
  IF pos < Len(s) /\ isdigit(At(s, pos))
  THEN IF nf < 0
       THEN AtofDigits(s, pos + 1, acc * 10 + DigitVal(At(s, pos)), nf)
       ELSE IF nf >= 3 THEN AtofDigits(s, pos + 1, acc, nf)
       ELSE AtofDigits(s, pos + 1, acc * 10 + DigitVal(At(s, pos)), nf + 1)
  ELSE IF pos < Len(s) /\ At(s, pos) = "." /\ nf < 0
  THEN AtofDigits(s, pos + 1, acc, 0)
  ELSE IF nf <= 0 THEN acc * DScale
  ELSE IF nf = 1 THEN acc * (DScale \div 10)
  ELSE IF nf = 2 THEN acc * (DScale \div 100)
  ELSE acc

\* atof on a numeric token: sign, integer part, fraction
atof(s) ==
  IF Len(s) > 0 /\ At(s, 0) = "-" THEN 0 - AtofDigits(s, 1, 0, -1)
  ELSE AtofDigits(s, 0, 0, -1)

(***************************************************************************)
(* Node: the tagged value.  `u` is the anonymous union (v_int, code,       *)
(* v_double, v_bool, p_thread, v_builtin), `s` is v_string, `l` is v_list  *)
(* (a sequence of heap addresses) and `oe` is outer_env.                   *)
(***************************************************************************)
MkNode(t, uv, sv, lv, env) ==
  [type |-> t, u |-> uv, s |-> sv, l |-> lv, oe |-> env]

\* Node::Node(): the union keeps its default member initializer, nullptr
NodeNil == MkNode("nil", 0, "", <<>>, 0)
NodeInt(a) == MkNode("int", a, "", <<>>, 0)
NodeDouble(a) == MkNode("double", a, "", <<>>, 0)
NodeBool(a) == MkNode("bool", IF a THEN 1 ELSE 0, "", <<>>, 0)
NodeString(a) == MkNode("string", 0, a, <<>>, 0)
NodeList(a) == MkNode("list", 0, "", a, 0)
NodeBuiltin(a) == MkNode("builtin", a, "", <<>>, 0)
make_special(a) == MkNode("special", a, "", <<>>, 0)
NodeSymbol(name, code) == MkNode("symbol", code, name, <<>>, 0)

\* The five shared nodes constructed before init()
node_true == 1
node_false == 2
node_0 == 3
node_1 == 4
nil == 5

StaticHeap == <<NodeBool(TRUE), NodeBool(FALSE), NodeInt(0), NodeInt(1), NodeNil>>

\* The first byte of the union, which is where v_bool lives.  An int, a
\* code or a bool gives its low byte.  A function pointer or a live thread
\* pointer gives a byte the program does not determine.  Any other node
\* holds what Node(), Node(string) and Node(vector) leave the union with
\* (the default member initializer p_thread = nullptr, every byte zero) or
\* a double, its own or one `++` and `--` wrote there: the low mantissa
\* byte of a double is zero when it is a multiple of 1/8.  2 stands for any
\* byte other than 0 and 1.
UnionByte(n) ==
  CASE n.type \in {"int", "symbol", "bool"} ->
         IF n.u % 256 \in {0, 1} THEN n.u % 256 ELSE 2
    [] n.type \in {"builtin", "special"} -> 2
    [] n.type = "thread" -> IF n.u = 0 THEN 0 ELSE 2
    [] OTHER -> IF n.u % (DScale \div 8) = 0 THEN 0 ELSE 2

\* the byte read as v_bool is not a value of bool: what the conditional
\* does with it is undefined
NoBoolValue(n) == UnionByte(n) \notin {0, 1}

\* the v_bool member of the union as the conditionals read it
v_bool(n) == UnionByte(n) # 0

(***************************************************************************)
(* Tokenizer.  The result carries `threw` when std::string::at is called   *)
(* with a position outside the buffer (std::out_of_range).                 *)
(***************************************************************************)
\* Tokenizer::emit
emit(ret, acc) == IF Len(acc) > 0 THEN Append(ret, acc) ELSE ret

IsSpace(c) == c = " " \/ c = "\t" \/ c = "\r" \/ c = "\n"

Unescape(c) ==
  IF c = "r" THEN "\r" ELSE IF c = "n" THEN "\n" ELSE IF c = "t" THEN "\t" ELSE c

\* The tokenizer's registers between two turns of its loops: the cursor
\* pos, the token list ret, the accumulator acc, the counter unclosed and
\* the loop the cursor is in: "top" is the for loop, "comment" the do/while
\* of a comment, "string" the while of a string literal.
TokStart ==
  [pos |-> 0, ret |-> <<>>, acc |-> "", unclosed |-> 0, mode |-> "top",
   done |-> FALSE, threw |-> FALSE]

Throw(st) == [st EXCEPT !.done = TRUE, !.threw = TRUE]

\* one turn of the for loop of Tokenizer::tokenize
TokTop(s, last, st) ==
  IF st.pos > last
  THEN [st EXCEPT !.ret = emit(st.ret, st.acc), !.acc = "", !.done = TRUE]
  ELSE IF st.pos >= Len(s) THEN Throw(st)
  ELSE
    LET c == At(s, st.pos) IN
    IF IsSpace(c)
    THEN [st EXCEPT !.ret = emit(st.ret, st.acc), !.acc = "", !.pos = @ + 1]
    ELSE IF c = ";" \/ (st.pos < last /\ c = "#" /\ At(s, st.pos + 1) = "!")
    THEN [st EXCEPT !.ret = emit(st.ret, st.acc), !.acc = "", !.pos = @ + 1,
                    !.mode = "comment"]
    ELSE IF c = "\""
    THEN [st EXCEPT !.unclosed = @ + 1, !.ret = emit(st.ret, st.acc),
                    !.acc = "\"", !.pos = @ + 1, !.mode = "string"]
    ELSE IF c = "("
    THEN [st EXCEPT !.unclosed = @ + 1,
                    !.ret = Append(emit(st.ret, st.acc), c), !.acc = "",
                    !.pos = @ + 1]
    ELSE IF c = ")"
    THEN [st EXCEPT !.unclosed = @ - 1,
                    !.ret = Append(emit(st.ret, st.acc), c), !.acc = "",
                    !.pos = @ + 1]
    ELSE [st EXCEPT !.acc = @ \o c, !.pos = @ + 1]

\* one test of `while (pos <= last && s.at(pos) != '\n')` after a pos++;
\* when it fails the for loop's own pos++ follows
TokComment(s, last, st) ==
  IF st.pos <= last /\ At(s, st.pos) # "\n"
  THEN [st EXCEPT !.pos = @ + 1]
  ELSE [st EXCEPT !.pos = @ + 1, !.mode = "top"]

\* the string loop with a closing quote that leaves the counter alone
TokStringKeepsCount(s, last, st) ==
  IF st.pos > last
  THEN [st EXCEPT !.ret = emit(st.ret, st.acc), !.acc = "", !.pos = @ + 1,
                  !.mode = "top"]
  ELSE IF At(s, st.pos) = "\""
  THEN [st EXCEPT !.ret = emit(st.ret, st.acc),
                  !.acc = "", !.pos = @ + 1, !.mode = "top"]
  ELSE IF At(s, st.pos) = "\\"
  THEN IF st.pos + 1 >= Len(s) THEN Throw(st)
       ELSE [st EXCEPT !.acc = @ \o Unescape(At(s, st.pos + 1)), !.pos = @ + 2]
  ELSE [st EXCEPT !.acc = @ \o At(s, st.pos), !.pos = @ + 1]

\* one turn of the while loop of a string literal; leaving it is followed
\* by emit() and the for loop's pos++
TokString(s, last, st) ==
  IF st.pos > last
  THEN [st EXCEPT !.ret = emit(st.ret, st.acc), !.acc = "", !.pos = @ + 1,
                  !.mode = "top"]
  ELSE IF At(s, st.pos) = "\""
  THEN [st EXCEPT !.unclosed = @ - 1, !.ret = emit(st.ret, st.acc),
                  !.acc = "", !.pos = @ + 1, !.mode = "top"]
  ELSE IF At(s, st.pos) = "\\"
  THEN IF st.pos + 1 >= Len(s) THEN Throw(st)
       ELSE [st EXCEPT !.acc = @ \o Unescape(At(s, st.pos + 1)), !.pos = @ + 2]
  ELSE [st EXCEPT !.acc = @ \o At(s, st.pos), !.pos = @ + 1]

TokStep(s, last, st) ==
  IF st.done THEN st
  ELSE IF st.mode = "top" THEN TokTop(s, last, st)
  ELSE IF st.mode = "comment" THEN TokComment(s, last, st)
  ELSE TokString(s, last, st)

\* n turns of the loops
RECURSIVE TokRun(_, _, _, _)
TokRun(s, last, st, n) ==
  IF n <= 1 THEN TokStep(s, last, st)
  ELSE LET half == TokRun(s, last, st, n \div 2) IN
       IF half.done THEN half ELSE TokRun(s, last, half, n - (n \div 2))

\* `size_t last = s.length() - 1`
Last(s) == IF Len(s) = 0 THEN SIZE_MAX ELSE Len(s) - 1

\* Tokenizer(s).tokenize(): every turn but the last advances the cursor,
\* so Len(s) + 2 turns reach the end of the buffer.  The result is the
\* tokenizer itself: its token list `ret`, `unclosed` and `threw`.
tokenize(s) == TokRun(s, Last(s), TokStart, Len(s) + 2)

(***************************************************************************)
(* The machine: everything the kernel keeps between calls.                 *)
(*   heap     : the Node cells                                             *)
(*   frames   : the environment objects, [env, outer]                      *)
(*   macros   : name -> <<parameter list, body>> (heap addresses)          *)
(*   symcode  : std::map from a name to its code                           *)
(*   symname  : the name table, a std::vector indexed by code              *)
(*   threads  : the std::thread objects created by special_thread          *)
(*   out      : what was written to standard output, with the writer       *)
(***************************************************************************)
EmptyMap == <<>>

\* m[k] = v
Put(m, k, v) == (k :> v) @@ m

\* std::make_shared<Node>(node): the new cell's address is Len(heap) + 1
Alloc(M, node) == [M EXCEPT !.heap = Append(@, node)]

Top(M) == Len(M.heap)

\* std::make_shared<environment>(...): the new frame's id is Len(frames) + 1
NewFrame(M, outer) ==
  [M EXCEPT !.frames = Append(@, [env |-> EmptyMap, outer |-> outer])]

TopFrame(M) == Len(M.frames)

\* symcode.find(name)
SymFound(symcode, name) == name \in DOMAIN symcode

\* ToCode: codes are 0-based, the name of code c is symname[c + 1]
ToCodeValue(symcode, name) ==
  IF SymFound(symcode, name) THEN symcode[name]
  ELSE Cardinality(DOMAIN symcode)

\* symname.emplace_back(name) on every call, found or not
ToCodeTableAlways(symcode, symname, name) == Append(symname, name)

ToCodeTable(symcode, symname, name) ==
  IF SymFound(symcode, name) THEN symname ELSE Append(symname, name)

\* symcode[std::string(name)] = r
ToCodeMap(symcode, name) ==
  IF SymFound(symcode, name) THEN symcode
  ELSE Put(symcode, name, Cardinality(DOMAIN symcode))

ToCode(M, name) ==
  [code |-> ToCodeValue(M.symcode, name),
   M |-> [M EXCEPT !.symname = ToCodeTable(M.symcode, @, name),
                   !.symcode = ToCodeMap(@, name)]]

(***************************************************************************)
(* Reader.                                                                 *)
(***************************************************************************)
IsNumberTok(tok) ==
  \/ isdigit(At(tok, 0))
  \/ (At(tok, 0) = "-" /\ Len(tok) >= 2 /\ isdigit(At(tok, 1)))

\* Parser::parse.  The recursion of parse() on "(" is kept as a stack:
\* `stack` holds the vector `ret` of every parse() call in progress, the
\* innermost last; `pos` is the parser's cursor.  Tokens are never empty and
\* the model's characters are ASCII, so the `tok[0] < 0` bail-out never fires.
ParseStart(M) == [M |-> M, pos |-> 0, stack |-> <<<<>>>>, done |-> FALSE]

\* ret.push_back(node) in the innermost call
PushForm(st, M1) ==
  [st EXCEPT !.M = M1,
             !.stack[Len(st.stack)] = Append(@, Top(M1)),
             !.pos = @ + 1]

\* the innermost parse() returns to `ret.push_back(make_shared<Node>(parse()))`
\* and the caller's loop does its pos++
ParseReturn(st) ==
  LET d  == Len(st.stack)
      M1 == Alloc(st.M, NodeList(st.stack[d]))
  IN  [st EXCEPT !.M = M1,
                 !.stack = Append(SubSeq(st.stack, 1, d - 2),
                                  Append(st.stack[d - 1], Top(M1))),
                 !.pos = @ + 1]

\* one turn of the for loop of the innermost parse() call
ParseStep(tokens, st) ==
  IF st.done THEN st
  ELSE IF st.pos >= Len(tokens)
  THEN IF Len(st.stack) = 1 THEN [st EXCEPT !.done = TRUE] ELSE ParseReturn(st)
  ELSE
    LET tok == tokens[st.pos + 1] IN
    IF At(tok, 0) = "\""
    THEN PushForm(st, Alloc(st.M, NodeString(SubSeq(tok, 2, Len(tok)))))
    ELSE IF tok = "("
    THEN [st EXCEPT !.stack = Append(@, <<>>), !.pos = @ + 1]
    ELSE IF tok = ")"
    THEN IF Len(st.stack) = 1 THEN [st EXCEPT !.done = TRUE]
         ELSE ParseReturn(st)
    ELSE IF IsNumberTok(tok)
    THEN IF Contains(tok, ".") \/ Contains(tok, "e")
         THEN PushForm(st, Alloc(st.M, NodeDouble(atof(tok))))
         ELSE PushForm(st, Alloc(st.M, NodeInt(atoi(tok))))
    ELSE LET c == ToCode(st.M, tok) IN
         PushForm(st, Alloc(c.M, NodeSymbol(tok, c.code)))

RECURSIVE ParseRun(_, _, _)
ParseRun(tokens, st, n) ==
  IF n <= 1 THEN ParseStep(tokens, st)
  ELSE LET half == ParseRun(tokens, st, n \div 2) IN
       IF half.done THEN half ELSE ParseRun(tokens, half, n - (n \div 2))

\* Parser(tokens).parse(): a token costs one turn, a list left open at the
\* end one more.  The result is the parser: the forms read are `stack[1]`.
ParseTokens(M, tokens) ==
  ParseRun(tokens, ParseStart(M), 2 * Len(tokens) + 2)

\* parse(s) = Parser(tokenize(s)).parse(); callers check tokenize(s).threw
parse(M, s) == ParseTokens(M, tokenize(s).ret)

(***************************************************************************)
(* Environment.                                                            *)
(***************************************************************************)
\* a lookup that does not walk outward
EnvGetLocal(frames, f, code) ==
  IF code \in DOMAIN frames[f].env THEN frames[f].env[code] ELSE nil

\* environment::get(code)
RECURSIVE EnvGet(_, _, _)
EnvGet(frames, f, code) ==
  IF code \in DOMAIN frames[f].env
  THEN frames[f].env[code]
  ELSE IF frames[f].outer # 0
       THEN EnvGet(frames, frames[f].outer, code)
       ELSE nil

\* whether environment::get(code) finds the code in a frame of the chain
RECURSIVE EnvHas(_, _, _)
EnvHas(frames, f, code) ==
  \/ code \in DOMAIN frames[f].env
  \/ (frames[f].outer # 0 /\ EnvHas(frames, frames[f].outer, code))

\* a set that writes into the global frame whatever frame it is called on
EnvSetGlobal(M, f, code, v) ==
  [M EXCEPT !.frames[1].env = (code :> v) @@ @]

\* environment::set(k, v): env[k->code] = v in this frame
EnvSet(M, f, code, v) ==
  [M EXCEPT !.frames[f].env = Put(@, code, v)]

(***************************************************************************)
(* Macro expander and compile pass.                                        *)
(***************************************************************************)
\* apply_macro(body, vars): vars maps parameter names to heap addresses
RECURSIVE apply_macro(_, _, _)
RECURSIVE ApplyMacroList(_, _, _, _, _)
ApplyMacroList(M, bvec, i, vars, ret) ==
  IF i > Len(bvec)
  THEN [M |-> M, ret |-> ret]
  ELSE
    LET b == bvec[i] IN
    IF M.heap[b].s = "..."
    THEN \* vars["..."] : operator[] inserts a null snode when absent;
         \* the model's macros always declare `...` before using it
         ApplyMacroList(M, bvec, i + 1, vars, ret \o M.heap[vars["..."]].l)
    ELSE LET r == apply_macro(M, b, vars) IN
         IF r.M.ub THEN [M |-> r.M, ret |-> ret]
         ELSE ApplyMacroList(r.M, bvec, i + 1, vars, Append(ret, r.v))

apply_macro(M, body, vars) ==
  IF M.heap[body].type = "list"
  THEN LET r  == ApplyMacroList(M, M.heap[body].l, 1, vars, <<>>)
           M1 == Alloc(r.M, NodeList(r.ret))
       IN  [M |-> M1, v |-> Top(M1)]
  ELSE IF M.heap[body].s \in DOMAIN vars
       THEN [M |-> M, v |-> vars[M.heap[body].s]]
       ELSE [M |-> M, v |-> body]

\* a binding loop that is off by one: parameter i gets the form before its own
RECURSIVE MacroVarsShifted(_, _, _, _, _)
MacroVarsShifted(M, argsyms, nList, i, vars) ==
  IF i > Len(argsyms)
  THEN [M |-> M, vars |-> vars]
  ELSE MacroVarsShifted(M, argsyms, nList, i + 1,
                        (M.heap[argsyms[i]].s :> nList[i]) @@ vars)

\* the loop of macroexpand that binds the formal parameters
RECURSIVE MacroVars(_, _, _, _, _)
MacroVars(M, argsyms, nList, i, vars) ==
  IF i > Len(argsyms)
  THEN [M |-> M, vars |-> vars]
  ELSE
    LET argsym == M.heap[argsyms[i]].s IN
    IF argsym = "..."
    THEN LET M1 == Alloc(M, NodeList(SubSeq(nList, i + 1, Len(nList)))) IN
         [M |-> M1, vars |-> Put(vars, argsym, Top(M1))]
    ELSE \* nList.at(i + 1) in 0-based indexing
         MacroVars(M, argsyms, nList, i + 1, Put(vars, argsym, nList[i + 1]))

macroexpand(M, n) ==
  LET nList == M.heap[n].l IN
  IF M.heap[nList[1]].s \in DOMAIN M.macros
  THEN LET macro == M.macros[M.heap[nList[1]].s]
           mv    == MacroVars(M, M.heap[macro[1]].l, nList, 1, EmptyMap)
       IN  apply_macro(mv.M, macro[2], mv.vars)
  ELSE [M |-> M, v |-> n]

RECURSIVE compile(_, _)
RECURSIVE CompileChildren(_, _, _, _)

\* an expansion returned as it is, not compiled again
ReturnExpanded(e) == e

\* `return compile(expanded)`: e is the result of macroexpand
CompileExpanded(e) == IF e.M.ub THEN e ELSE compile(e.M, e.v)

CompileChildren(M, lst, i, r) ==
  IF i > Len(lst)
  THEN [M |-> M, ret |-> r]
  ELSE LET c == compile(M, lst[i]) IN
       IF c.M.ub THEN [M |-> c.M, ret |-> r]
       ELSE CompileChildren(c.M, lst, i + 1, Append(r, c.v))

compile(M, n) ==
  IF M.heap[n].type # "list" THEN [M |-> M, v |-> n]
  ELSE IF Len(M.heap[n].l) = 0 THEN [M |-> M, v |-> n]
  ELSE
    LET f    == compile(M, M.heap[n].l[1])
        M1   == f.M
        func == M1.heap[f.v]
        lst  == M1.heap[n].l
    IN
    IF func.type = "symbol" /\ func.s = "defmacro"
    THEN [M |-> [M1 EXCEPT !.macros =
                   Put(@, M1.heap[lst[2]].s, <<lst[3], lst[4]>>)],
          v |-> nil]
    ELSE IF func.type = "symbol" /\ func.s = "quote"
    THEN [M |-> M1, v |-> n]
    ELSE IF func.s \in DOMAIN M1.macros
    THEN CompileExpanded(macroexpand(M1, n))
    ELSE LET c  == CompileChildren(M1, lst, 1, <<>>)
             M2 == Alloc(c.M, NodeList(c.ret))
         IN  [M |-> M2, v |-> Top(M2)]

\* compile_all(parse(s)): p is the parser that read the forms
compile_all(p) == CompileChildren(p.M, p.stack[1], 1, <<>>)

(***************************************************************************)
(* Conversions of Node.                                                    *)
(***************************************************************************)
\* (int)v_double: truncation toward zero
TruncDiv(a, b) == IF a < 0 THEN 0 - ((0 - a) \div b) ELSE a \div b

to_int(n) ==
  CASE n.type = "int" -> n.u
    [] n.type = "double" -> TruncDiv(n.u, DScale)
    [] n.type = "bool" -> n.u
    [] n.type = "string" -> atoi(n.s)
    [] OTHER -> 0

to_double(n) ==
  CASE n.type = "int" -> n.u * DScale
    [] n.type = "double" -> n.u
    [] n.type = "bool" -> n.u * DScale
    [] n.type = "string" -> atof(n.s)
    [] OTHER -> 0

\* The v_double member read without a conversion (first operand of the
\* arithmetic primitives when it is not an int).  A node that was not
\* constructed from a double or a bool has the eight bytes of its union
\* zero (the default member initializer) or holding a code or a pointer:
\* as a double that is zero or a denormal, 0 at the precision kept here.
v_double(n) == IF n.type = "double" THEN n.u ELSE 0

\* Node(bool) initializes one byte of the union: the double read from it
\* is made of seven indeterminate bytes
Indeterminate(n) == n.type = "bool"

\* sprintf(buf, "%.16g", v) on the fixed-point representation
DoubleToStr(d) ==
  LET a  == IF d < 0 THEN 0 - d ELSE d
      ip == a \div DScale
      fp == a % DScale
      f3 == Digits[(fp \div 100) + 1] \o Digits[((fp \div 10) % 10) + 1]
              \o Digits[(fp % 10) + 1]
      fs == IF fp = 0 THEN ""
            ELSE IF fp % 100 = 0 THEN "." \o SubSeq(f3, 1, 1)
            ELSE IF fp % 10 = 0 THEN "." \o SubSeq(f3, 1, 2)
            ELSE "." \o f3
  IN  (IF d < 0 THEN "-" ELSE "") \o UIntToStr(ip) \o fs

RECURSIVE to_string(_, _)
RECURSIVE ListToStr(_, _, _)
ListToStr(heap, l, i) ==
  IF i > Len(l) THEN ""
  ELSE (IF i > 1 THEN " " ELSE "") \o to_string(heap, l[i])
         \o ListToStr(heap, l, i + 1)

to_string(heap, a) ==
  LET n == heap[a] IN
  CASE n.type = "nil" -> ""
    [] n.type = "int" -> IntToStr(n.u)
    [] n.type \in {"builtin", "special"} -> "#<builtin:" \o IntToStr(n.u) \o ">"
    [] n.type = "double" -> DoubleToStr(n.u)
    [] n.type = "bool" -> IF v_bool(n) THEN "true" ELSE "false"
    [] n.type \in {"string", "symbol"} -> n.s
    [] n.type \in {"fn", "list"} -> "(" \o ListToStr(heap, n.l, 1) \o ")"
    [] OTHER -> ""

\* Node::type_str
type_str(n) ==
  CASE n.type = "string" -> "std::string"
    [] n.type = "thread" -> "std::thread"
    [] OTHER -> n.type

\* Node::str_with_type
str_with_type(heap, a) == to_string(heap, a) \o " : " \o type_str(heap[a])

(***************************************************************************)
(* The host functions a builtin or special node points to (v_builtin is    *)
(* the index in this table) and the names init() binds them to.            *)
(***************************************************************************)
Hosts ==
  <<"special_def", "special_set", "special_if", "special_fn", "special_begin",
    "special_while", "special_quote", "special_andand", "special_oror",
    "special_thread", "builtin_eval", "builtin_plus", "builtin_minus",
    "builtin_mul", "builtin_div", "builtin_lt", "builtin_caret",
    "builtin_percent", "builtin_sqrt", "builtin_plusplus",
    "builtin_minusminus", "builtin_floor", "builtin_ceil", "builtin_ln",
    "builtin_log10", "builtin_rand", "builtin_eqeq", "builtin_not",
    "builtin_strlen", "builtin_char_at", "builtin_chr", "builtin_int",
    "builtin_double", "builtin_string", "builtin_read_string", "builtin_type",
    "builtin_list", "builtin_apply", "builtin_fold", "builtin_map",
    "builtin_filter", "builtin_push_backd", "builtin_pop_backd", "builtin_nth",
    "builtin_length", "builtin_pr", "builtin_prn", "builtin_exit",
    "builtin_system", "builtin_cons", "builtin_read_line", "builtin_slurp",
    "builtin_spit", "builtin_join", "builtin_import">>

HostId(name) == CHOOSE i \in 1..Len(Hosts) : Hosts[i] = name

\* std::make_shared<Node>(): a new cell that copies nothing
CloneNothing(M, a) == Alloc(M, NodeNil)

\* std::make_shared<Node>(*heap[a]): a new cell with the same members
Clone(M, a) == Alloc(M, M.heap[a])

\* printf by the running thread
Emit(M, text) == [M EXCEPT !.out = Append(@, [by |-> M.cur, text |-> text])]

(***************************************************************************)
(* builtin_plusplus / builtin_minusminus: `first->v_int++` is a load       *)
(* followed by a store of the loaded value plus one.                       *)
(***************************************************************************)
PlusPlusLoad(heap, a) == heap[a].u

\* the amount `++` adds: 1 for v_int, 1.0 for v_double
PlusPlusUnit(n) == IF n.type = "int" THEN 1 ELSE DScale

\* an increment that reads the cell again when it stores
PlusPlusAtomic(heap, a, loaded) ==
  [heap EXCEPT ![a].u = @ + PlusPlusUnit(heap[a])]

PlusPlusStore(heap, a, loaded) ==
  [heap EXCEPT ![a].u = loaded + PlusPlusUnit(heap[a])]

MinusMinusStore(heap, a, loaded) ==
  [heap EXCEPT ![a].u = loaded - PlusPlusUnit(heap[a])]

(***************************************************************************)
(* Arithmetic folds: the mode is decided by the type of the first operand. *)
(***************************************************************************)
\* one turn of the int loops: sum += / sum -= / prod *=
IntOp(op, acc, x) ==
  CASE op = "builtin_plus" -> acc + x
    [] op = "builtin_minus" -> acc - x
    [] OTHER -> acc * x

\* one turn of the double loops
DoubleOp(op, acc, x) ==
  CASE op = "builtin_plus" -> acc + x
    [] op = "builtin_minus" -> acc - x
    [] OTHER -> TruncDiv(acc * x, DScale)

RECURSIVE FoldInt(_, _, _, _, _)
FoldInt(heap, op, args, i, acc) ==
  IF i > Len(args) THEN acc
  ELSE FoldInt(heap, op, args, i + 1, IntOp(op, acc, to_int(heap[args[i]])))

RECURSIVE FoldDouble(_, _, _, _, _)
FoldDouble(heap, op, args, i, acc) ==
  IF i > Len(args) THEN acc
  ELSE FoldDouble(heap, op, args, i + 1,
                  DoubleOp(op, acc, to_double(heap[args[i]])))

\* the node builtin_plus / builtin_minus / builtin_mul make from at least
\* one operand
Arith(heap, op, args) ==
  IF heap[args[1]].type = "int"
  THEN NodeInt(FoldInt(heap, op, args, 2, heap[args[1]].u))
  ELSE NodeDouble(FoldDouble(heap, op, args, 2, v_double(heap[args[1]])))

(***************************************************************************)
(* Threads.  special_thread hands the new std::thread a lambda that holds  *)
(* REFERENCES to its parameters raw_args and env.  A thread record keeps   *)
(* what those references designated when the thread was created:           *)
(*   args, env : the vector and environment passed to special_thread       *)
(*   status    : "spawned" (lambda not entered), "running", "done",        *)
(*               "deleted" (joined and freed by builtin_join)              *)
(*   exprs,idx : the lambda's copy of raw_args[1..] and its loop cursor    *)
(*   mid       : inside `first->v_int++`, between the load and the store   *)
(*   target,reg: the cell being incremented and the value loaded from it   *)
(***************************************************************************)
NewThread(args, env) ==
  [args |-> args, env |-> env, status |-> "spawned", exprs |-> <<>>,
   idx |-> 1, mid |-> FALSE, target |-> 0, reg |-> 0]

\* What the lambda can find behind its dangling references once eval, the
\* owner of the referenced vector and environment, may have returned:
\*   "intact" : it copies raw_args[1..] before the vector is destroyed
\*   "noop"   : it reads a dead vector that looks empty
\*   "crash"  : it faults
Outcomes == {"intact", "noop", "crash"}

\* entry of the lambda: exprs(raw_args.begin() + 1, raw_args.end())
StartThread(M, t, outcome) ==
  LET th == M.threads[t] IN
  IF outcome = "crash" \/ (outcome = "intact" /\ Len(th.args) = 0)
  THEN [M EXCEPT !.ub = TRUE, !.threads[t].status = "done"]
  ELSE IF outcome = "noop"
  THEN [M EXCEPT !.threads[t].status = "done"]
  ELSE [M EXCEPT !.threads[t].status =
                    IF Len(th.args) = 1 THEN "done" ELSE "running",
                 !.threads[t].exprs = SubSeq(th.args, 2, Len(th.args))]

(***************************************************************************)
(* Evaluator.  The C++ call stack of eval / apply / the primitives is the  *)
(* explicit stack M.k: a frame records where a caller waits for the value  *)
(* of a nested eval or apply.  M.c is the control: the call being entered  *)
(* ("eval", "apply", "host" for v_builtin) or the value being returned     *)
(* ("ret").                                                                *)
(***************************************************************************)
Ret(M, v) == [M EXCEPT !.c = [tag |-> "ret", v |-> v]]

Ev(M, n, env) == [M EXCEPT !.c = [tag |-> "eval", n |-> n, env |-> env]]

\* apply(func, args, env) is entered
Ap(M, func, args, env) ==
  [M EXCEPT !.c = [tag |-> "apply", f |-> func, args |-> args, env |-> env]]

\* Hosts[id](args, env) is entered
Host(M, id, args, env) ==
  [M EXCEPT !.c = [tag |-> "host", id |-> id, args |-> args, env |-> env]]

Push(M, fr) == [M EXCEPT !.k = Append(@, fr)]

\* an operation with undefined behaviour: the run stops here
Fault(M) == Ret([M EXCEPT !.ub = TRUE], nil)

\* return std::make_shared<Node>(node)
RetNew(M, node) == LET M1 == Alloc(M, node) IN Ret(M1, Top(M1))

\* only the last sub-form is evaluated
BodyLastOnly(M, lst, i, last, env) ==
  IF i > last THEN Ret(M, nil) ELSE Ev(M, lst[last], env)

\* `for (k = i; k < last; k++) eval(lst[k], env); return eval(lst[last], env)`
Body(M, lst, i, last, env) ==
  IF i > last THEN Ret(M, nil)
  ELSE IF i = last THEN Ev(M, lst[i], env)
  ELSE Ev(Push(M, [kind |-> "seq", lst |-> lst, i |-> i + 1, last |-> last,
                   env |-> env]), lst[i], env)

\* eval up to its first nested call
eval(M, n, env) ==
  LET node == M.heap[n] IN
  CASE node.type = "symbol" -> Ret(M, EnvGet(M.frames, env, node.u))
    [] node.type = "list" ->
         IF Len(node.l) = 0 THEN Ret(M, nil)
         ELSE Ev(Push(M, [kind |-> "head", n |-> n, env |-> env]),
                 node.l[1], env)
    [] OTHER -> Ret(M, n)

\* the loop of apply that binds the parameters: env[k->code] = args[i].
\* Reading args[i] past the end of the vector is undefined behaviour.
RECURSIVE BindArgs(_, _, _, _, _)
BindArgs(M, local, arg_syms, args, i) ==
  IF i > Len(arg_syms) THEN M
  ELSE IF i > Len(args) THEN [M EXCEPT !.ub = TRUE]
  ELSE BindArgs(EnvSet(M, local, M.heap[arg_syms[i]].u, args[i]),
                local, arg_syms, args, i + 1)

\* special_andand from operand i on
AndAndLoop(M, raw, i, env) ==
  IF i > Len(raw) THEN Ret(M, node_true)
  ELSE Ev(Push(M, [kind |-> "and", raw |-> raw, i |-> i, env |-> env]),
          raw[i], env)

\* special_oror from operand i on
OrOrLoop(M, raw, i, env) ==
  IF i > Len(raw) THEN Ret(M, node_false)
  ELSE Ev(Push(M, [kind |-> "or", raw |-> raw, i |-> i, env |-> env]),
          raw[i], env)

\* special_while: evaluate the condition
WhileLoop(M, raw, env) ==
  Ev(Push(M, [kind |-> "whilec", raw |-> raw, env |-> env]), raw[2], env)

\* `for (k = i; k <= j; k++) eval(lst[k], env)` with the values discarded
Each(M, lst, i, j, env) ==
  IF i > j THEN Ret(M, nil)
  ELSE Ev(Push(M, [kind |-> "each", lst |-> lst, i |-> i + 1, j |-> j,
                   env |-> env]), lst[i], env)

\* the store of a `++` thread t had loaded for, if one is pending
FlushStore(M, t) ==
  IF M.threads[t].mid
  THEN [M EXCEPT !.heap = PlusPlusStore(@, M.threads[t].target,
                                        M.threads[t].reg),
                 !.threads[t].mid = FALSE,
                 !.threads[t].idx = @ + 1]
  ELSE M

\* the rest of the lambda of thread fr.pt: `for (sn : exprs) eval(sn, env)`
JoinRun(M, fr) ==
  Each(Push([M EXCEPT !.cur = fr.pt], fr), M.threads[fr.pt].exprs,
       M.threads[fr.pt].idx, Len(M.threads[fr.pt].exprs),
       M.threads[fr.pt].env)

\* pt->join() on a thread whose lambda has been entered
JoinStarted(M, fr) ==
  IF M.ub THEN Ret(M, nil)
  ELSE IF M.threads[fr.pt].status = "running"
  THEN JoinRun(FlushStore(M, fr.pt), fr)
  ELSE Ret(Push(M, fr), nil)

\* builtin_join: pt->join() returns when the thread's lambda has returned.
\* A thread not yet entered is started with the outcome M.oracle selects;
\* the rest of its lambda (the pending store of `++` if any, then
\* `for (sn : exprs) eval(sn, env)`) runs before join returns.
Join(M, a) ==
  IF M.heap[a].u = 0 THEN Ret(M, nil)
  ELSE IF M.heap[a].type # "thread"
          \/ M.threads[M.heap[a].u].status = "deleted"
  THEN \* join and delete through a pointer that designates no live thread
       Fault([M EXCEPT !.heap[a].u = 0])
  ELSE JoinStarted(IF M.threads[M.heap[a].u].status = "spawned"
                   THEN StartThread(M, M.heap[a].u, M.oracle) ELSE M,
                   [kind |-> "join", a |-> a, pt |-> M.heap[a].u,
                    cur |-> M.cur])

\* a closure environment that copies the bindings of env when fn runs
SnapshotEnv(M, env) == [M EXCEPT !.frames = Append(@, M.frames[env])]

\* special_fn: std::make_shared<environment>(env), a new empty frame whose
\* outer is the frame the fn form is evaluated in
ClosureEnv(M, env) == NewFrame(M, env)

\* the test of special_set with the sentinel replaced by any nil value
IsNilValue(M, place, var) ==
  M.heap[place].type = "symbol" /\ M.heap[var].type = "nil"

\* special_set: `raw_args[1]->type == Node::T_SYMBOL && var == nil`, a
\* comparison of var with the shared_ptr nil
IsNewBinding(M, place, var) ==
  M.heap[place].type = "symbol" /\ var = nil

\* builtin_pr: the operands' to_string separated by one space
RECURSIVE PrText(_, _, _)
PrText(heap, args, i) ==
  IF i > Len(args) THEN ""
  ELSE (IF i > 1 THEN " " ELSE "") \o to_string(heap, args[i])
         \o PrText(heap, args, i + 1)

\* builtin_pr, and builtin_prn which calls it and then puts("")
Pr(M, args, newline) ==
  IF Len(args) = 0 THEN (IF newline THEN Emit(M, "\n") ELSE M)
  ELSE IF newline THEN Emit(Emit(M, PrText(M.heap, args, 1)), "\n")
  ELSE Emit(M, PrText(M.heap, args, 1))

\* builtin_eqeq after the first operand
RECURSIVE AllEqual(_, _, _, _)
AllEqual(heap, args, i, first) ==
  IF i > Len(args) THEN TRUE
  ELSE IF (IF first.type = "int" THEN to_int(heap[args[i]]) # first.u
           ELSE to_double(heap[args[i]]) # v_double(first))
  THEN FALSE
  ELSE AllEqual(heap, args, i + 1, first)

\* the loop of builtin_map; len is read once, the elements at each turn
MapLoop(M, fr) ==
  IF fr.i > fr.len THEN RetNew(M, NodeList(fr.acc))
  ELSE IF fr.i > Len(M.heap[fr.lst].l) THEN Fault(M)
  ELSE Ap(Push(M, fr), fr.f, <<M.heap[fr.lst].l[fr.i]>>, fr.env)

\* the parameters are bound in the closure's own frame, which every
\* application of the fn shares
applyInClosureFrame(M, func, args, env) ==
  LET fnode == M.heap[func] IN
  CASE fnode.type = "builtin" -> Host(M, fnode.u, args, env)
    [] fnode.type = "fn" ->
         LET f  == fnode.l
             M2 == BindArgs(M, fnode.oe, M.heap[f[2]].l, args, 1)
         IN  IF M2.ub THEN Ret(M2, nil) ELSE Body(M2, f, 3, Len(f), fnode.oe)
    [] OTHER -> Ret(M, nil)

\* apply up to its first nested call
apply(M, func, args, env) ==
  LET fnode == M.heap[func] IN
  CASE fnode.type = "builtin" -> Host(M, fnode.u, args, env)
    [] fnode.type = "fn" ->
         LET f     == fnode.l
             M1    == NewFrame(M, fnode.oe)
             local == TopFrame(M1)
             M2    == BindArgs(M1, local, M1.heap[f[2]].l, args, 1)
         IN  IF M2.ub THEN Ret(M2, nil) ELSE Body(M2, f, 3, Len(f), local)
    [] OTHER -> Ret(M, nil)

\* v_builtin(args, env) up to its first nested call: `args` are the raw
\* forms (the list node's own v_list, head included) for a special, the
\* evaluated operands for a builtin
CallHost(M, id, args, env) ==
  LET h == Hosts[id] IN
  CASE h = "special_def" ->
         Ev(Push(M, [kind |-> "def", args |-> args, env |-> env]), args[3], env)
    [] h = "special_if" ->
         Ev(Push(M, [kind |-> "if", args |-> args, env |-> env]), args[2], env)
    [] h = "special_set" ->
         Ev(Push(M, [kind |-> "set1", args |-> args, env |-> env]), args[2], env)
    [] h = "special_fn" ->
         LET M1 == Alloc(M, NodeList(args))
             n2 == Top(M1)
             M2 == ClosureEnv(M1, env)
         IN  Ret([M2 EXCEPT !.heap[n2].type = "fn",
                            !.heap[n2].oe = TopFrame(M2)], n2)
    [] h = "special_begin" -> Body(M, args, 2, Len(args), env)
    [] h = "special_while" -> WhileLoop(M, args, env)
    [] h = "special_quote" -> Ret(M, args[2])
    [] h = "special_andand" -> AndAndLoop(M, args, 2, env)
    [] h = "special_oror" -> OrOrLoop(M, args, 2, env)
    [] h = "special_thread" ->
         LET M1 == [M EXCEPT !.threads = Append(@, NewThread(args, env))] IN
         RetNew(M1, MkNode("thread", Len(M1.threads), "", <<>>, 0))
    [] h = "builtin_join" ->
         IF Len(args) = 0 THEN Fault(M) ELSE Join(M, args[1])
    [] h = "builtin_eval" -> Ev(M, args[1], env)
    [] h \in {"builtin_plus", "builtin_minus", "builtin_mul"} ->
         IF Len(args) = 0
         THEN Ret(M, IF h = "builtin_mul" THEN node_1 ELSE node_0)
         ELSE IF Indeterminate(M.heap[args[1]]) THEN Fault(M)
         ELSE RetNew(M, Arith(M.heap, h, args))
    [] h = "builtin_lt" ->
         LET a == M.heap[args[1]]
             b == M.heap[args[2]]
         IN  IF Indeterminate(a) THEN Fault(M)
             ELSE RetNew(M, NodeBool(IF a.type = "int" THEN a.u < to_int(b)
                                     ELSE v_double(a) < to_double(b)))
    [] h = "builtin_eqeq" ->
         IF Indeterminate(M.heap[args[1]]) THEN Fault(M)
         ELSE Ret(M, IF AllEqual(M.heap, args, 2, M.heap[args[1]])
                     THEN node_true ELSE node_false)
    [] h = "builtin_not" ->
         IF NoBoolValue(M.heap[args[1]]) THEN Fault(M)
         ELSE RetNew(M, NodeBool(~v_bool(M.heap[args[1]])))
    [] h = "builtin_plusplus" ->
         IF Len(args) = 0 THEN RetNew(M, NodeInt(0))
         ELSE Ret([M EXCEPT !.heap = PlusPlusStore(@, args[1],
                                       PlusPlusLoad(M.heap, args[1]))],
                  args[1])
    [] h = "builtin_minusminus" ->
         IF Len(args) = 0 THEN RetNew(M, NodeInt(0))
         ELSE Ret([M EXCEPT !.heap = MinusMinusStore(@, args[1],
                                       PlusPlusLoad(M.heap, args[1]))],
                  args[1])
    [] h = "builtin_int" -> RetNew(M, NodeInt(to_int(M.heap[args[1]])))
    [] h = "builtin_double" ->
         RetNew(M, NodeDouble(to_double(M.heap[args[1]])))
    [] h = "builtin_list" -> RetNew(M, NodeList(args))
    [] h = "builtin_cons" ->
         RetNew(M, NodeList(<<args[1]>> \o M.heap[args[2]].l))
    [] h = "builtin_length" -> RetNew(M, NodeInt(Len(M.heap[args[1]].l)))
    [] h = "builtin_nth" ->
         LET i == to_int(M.heap[args[1]]) IN
         IF i < 0 \/ i >= Len(M.heap[args[2]].l) THEN Fault(M)
         ELSE Ret(M, M.heap[args[2]].l[i + 1])
    [] h = "builtin_push_backd" ->
         LET M1 == Clone(M, args[2]) IN
         Ret([M1 EXCEPT !.heap[args[1]].l = Append(@, Top(M1))], args[1])
    [] h = "builtin_pop_backd" ->
         LET l == M.heap[args[1]].l IN
         IF Len(l) = 0 THEN Fault(M)
         ELSE Ret([M EXCEPT !.heap[args[1]].l = SubSeq(l, 1, Len(l) - 1)],
                  l[Len(l)])
    [] h = "builtin_apply" -> Ap(M, args[1], M.heap[args[2]].l, env)
    [] h = "builtin_map" ->
         MapLoop(M, [kind |-> "map", f |-> args[1], lst |-> args[2], i |-> 1,
                     len |-> Len(M.heap[args[2]].l), env |-> env,
                     acc |-> <<>>])
    [] h \in {"builtin_pr", "builtin_prn"} ->
         Ret(Pr(M, args, h = "builtin_prn"), nil)
    [] h = "builtin_type" ->
         RetNew(M, NodeString(type_str(M.heap[args[1]])))
    \* the remaining primitives (numeric library, strings, files, process
    \* control, fold, filter) are bound by init but not interpreted here
    [] OTHER -> Ret(M, nil)

\* the argument loop of eval, `args.push_back(eval(*i, env))`, then
\* senv2 (a copy of env2(func->outer_env), read before the loop) and apply
EvalArgs(M, fr) ==
  LET lst == M.heap[fr.n].l IN
  IF fr.i > Len(lst)
  THEN LET M2 == NewFrame(M, fr.oe) IN Ap(M2, fr.f, fr.acc, TopFrame(M2))
  ELSE Ev(Push(M, fr), lst[fr.i], fr.env)

\* a nested eval or apply returns v to the caller waiting in frame fr
Resume(M, fr, v) ==
  CASE fr.kind = "head" ->
         LET func == M.heap[v] IN
         CASE func.type = "special" ->
                Host(M, func.u, M.heap[fr.n].l, fr.env)
           [] func.type \in {"builtin", "fn"} ->
                EvalArgs(M, [kind |-> "args", n |-> fr.n, env |-> fr.env,
                             f |-> v, oe |-> func.oe, i |-> 2, acc |-> <<>>])
           [] OTHER -> Ret(M, nil)
    [] fr.kind = "args" ->
         EvalArgs(M, [fr EXCEPT !.i = @ + 1, !.acc = Append(@, v)])
    [] fr.kind = "seq" -> Body(M, fr.lst, fr.i, fr.last, fr.env)
    [] fr.kind = "each" -> Each(M, fr.lst, fr.i, fr.j, fr.env)
    [] fr.kind = "def" ->
         LET M1 == Clone(M, v) IN
         Ret(EnvSet(M1, fr.env, M1.heap[fr.args[2]].u, Top(M1)), Top(M1))
    [] fr.kind = "if" ->
         IF NoBoolValue(M.heap[v]) THEN Fault(M)
         ELSE IF v_bool(M.heap[v]) THEN Ev(M, fr.args[3], fr.env)
         ELSE IF Len(fr.args) < 4 THEN Ret(M, nil)
         ELSE Ev(M, fr.args[4], fr.env)
    [] fr.kind = "set1" ->
         Ev(Push(M, [kind |-> "set2", args |-> fr.args, env |-> fr.env,
                     var |-> v]), fr.args[3], fr.env)
    [] fr.kind = "set2" ->
         LET M1    == Clone(M, v)
             value == Top(M1)
         IN  IF IsNewBinding(M1, fr.args[2], fr.var)
             THEN Ret(EnvSet(M1, fr.env, M1.heap[fr.args[2]].u, value), value)
             ELSE Ret([M1 EXCEPT !.heap[fr.var] = M1.heap[value]], fr.var)
    [] fr.kind = "whilec" ->
         IF NoBoolValue(M.heap[v]) THEN Fault(M)
         ELSE IF v_bool(M.heap[v])
         THEN Each(Push(M, [kind |-> "whileb", raw |-> fr.raw, env |-> fr.env]),
                   fr.raw, 3, Len(fr.raw), fr.env)
         ELSE Ret(M, nil)
    [] fr.kind = "whileb" -> WhileLoop(M, fr.raw, fr.env)
    [] fr.kind = "and" ->
         IF NoBoolValue(M.heap[v]) THEN Fault(M)
         ELSE IF ~v_bool(M.heap[v]) THEN Ret(M, node_false)
         ELSE AndAndLoop(M, fr.raw, fr.i + 1, fr.env)
    [] fr.kind = "or" ->
         IF NoBoolValue(M.heap[v]) THEN Fault(M)
         ELSE IF v_bool(M.heap[v]) THEN Ret(M, node_true)
         ELSE OrOrLoop(M, fr.raw, fr.i + 1, fr.env)
    [] fr.kind = "map" ->
         MapLoop(M, [fr EXCEPT !.i = @ + 1, !.acc = Append(@, v)])
    [] fr.kind = "print" ->
         \* puts(eval_string(s)->str_with_type().c_str())
         Ret(Emit(M, str_with_type(M.heap, v) \o "\n"), v)
    [] fr.kind = "join" ->
         \* delete pt; pt = nullptr; return nil
         Ret([M EXCEPT !.cur = fr.cur,
                       !.threads[fr.pt].status = "deleted",
                       !.heap[fr.a].u = 0], nil)

\* the run is over: the outermost call has returned, or the process faulted
Done(M) == M.ub \/ (M.c.tag = "ret" /\ Len(M.k) = 0)

\* one call entered or one return taken
Step(M) ==
  CASE M.c.tag = "eval" -> eval(M, M.c.n, M.c.env)
    [] M.c.tag = "apply" -> apply(M, M.c.f, M.c.args, M.c.env)
    [] M.c.tag = "host" -> CallHost(M, M.c.id, M.c.args, M.c.env)
    [] OTHER -> Resume([M EXCEPT !.k = SubSeq(@, 1, Len(@) - 1)],
                       M.k[Len(M.k)], M.c.v)

\* at most n steps, stopping when the run is over
RECURSIVE Run(_, _)
Run(M, n) ==
  IF Done(M) THEN M
  ELSE IF n <= 1 THEN Step(M)
  ELSE LET half == Run(M, n \div 2) IN
       IF Done(half) THEN half ELSE Run(half, n - n \div 2)

\* the global environment
global_env == 1

\* eval_all(lst) is entered by a caller whose stack is k0: every form is
\* evaluated in the global environment and the value of the last one is the
\* value returned.  c is the result of compile_all.
Enter(c, k0) ==
  Body([c.M EXCEPT !.k = k0], c.ret, 1, Len(c.ret), global_env)

\* eval_all from entry to return, or to MaxSteps steps
eval_all(c) == Run(Enter(c, <<>>), MaxSteps)

\* eval_string: parse, compile_all, eval_all.  The result is the machine
\* when eval_all stops: Done tells whether the call returned within
\* MaxSteps steps, and the value returned is the control's.
eval_string(M, s) == eval_all(compile_all(parse(M, s)))

\* the value a finished call returned
Value(M) == IF M.c.tag = "ret" THEN M.c.v ELSE nil

\* eval_print is entered: puts(...) waits for eval_string(s) to return
EnterPrint(M, s) == Enter(compile_all(parse(M, s)), <<[kind |-> "print"]>>)

\* eval_print: puts(eval_string(s)->str_with_type().c_str())
eval_print(M, s) == Run(EnterPrint(M, s), MaxSteps)

(***************************************************************************)
(* init(): the global environment is frame 1.  Every binding gets a node   *)
(* of its own; `<` is bound twice.  The prelude library.paren is not part  *)
(* of the kernel: init() reports it missing and the kernel runs with the   *)
(* built-in bindings only.                                                 *)
(***************************************************************************)
Special(name) == make_special(HostId(name))

Builtin(name) == NodeBuiltin(HostId(name))

InitBindings ==
  <<<<"true", NodeBool(TRUE)>>, <<"false", NodeBool(FALSE)>>,
    <<"E", NodeDouble(2718)>>, <<"PI", NodeDouble(3141)>>,
    <<"def", Special("special_def")>>, <<"set", Special("special_set")>>,
    <<"if", Special("special_if")>>, <<"fn", Special("special_fn")>>,
    <<"begin", Special("special_begin")>>,
    <<"while", Special("special_while")>>,
    <<"quote", Special("special_quote")>>,
    <<"&&", Special("special_andand")>>, <<"||", Special("special_oror")>>,
    <<"std::thread", Builtin("special_thread")>>,
    <<"eval", Builtin("builtin_eval")>>, <<"+", Builtin("builtin_plus")>>,
    <<"-", Builtin("builtin_minus")>>, <<"*", Builtin("builtin_mul")>>,
    <<"/", Builtin("builtin_div")>>, <<"<", Builtin("builtin_lt")>>,
    <<"^", Builtin("builtin_caret")>>, <<"%", Builtin("builtin_percent")>>,
    <<"sqrt", Builtin("builtin_sqrt")>>, <<"++", Builtin("builtin_plusplus")>>,
    <<"--", Builtin("builtin_minusminus")>>,
    <<"floor", Builtin("builtin_floor")>>, <<"ceil", Builtin("builtin_ceil")>>,
    <<"ln", Builtin("builtin_ln")>>, <<"log10", Builtin("builtin_log10")>>,
    <<"rand", Builtin("builtin_rand")>>, <<"==", Builtin("builtin_eqeq")>>,
    <<"<", Builtin("builtin_lt")>>, <<"!", Builtin("builtin_not")>>,
    <<"strlen", Builtin("builtin_strlen")>>,
    <<"char-at", Builtin("builtin_char_at")>>, <<"chr", Builtin("builtin_chr")>>,
    <<"int", Builtin("builtin_int")>>, <<"double", Builtin("builtin_double")>>,
    <<"std::string", Builtin("builtin_string")>>,
    <<"string", Builtin("builtin_string")>>,
    <<"read-std::string", Builtin("builtin_read_string")>>,
    <<"type", Builtin("builtin_type")>>, <<"list", Builtin("builtin_list")>>,
    <<"apply", Builtin("builtin_apply")>>, <<"fold", Builtin("builtin_fold")>>,
    <<"std::map", Builtin("builtin_map")>>,
    <<"filter", Builtin("builtin_filter")>>,
    <<"push-back!", Builtin("builtin_push_backd")>>,
    <<"pop-back!", Builtin("builtin_pop_backd")>>,
    <<"nth", Builtin("builtin_nth")>>, <<"length", Builtin("builtin_length")>>,
    <<"pr", Builtin("builtin_pr")>>, <<"prn", Builtin("builtin_prn")>>,
    <<"exit", Builtin("builtin_exit")>>, <<"system", Builtin("builtin_system")>>,
    <<"cons", Builtin("builtin_cons")>>,
    <<"read-line", Builtin("builtin_read_line")>>,
    <<"slurp", Builtin("builtin_slurp")>>, <<"spit", Builtin("builtin_spit")>>,
    <<"join", Builtin("builtin_join")>>, <<"import", Builtin("builtin_import")>>>>

\* global_env->env[ToCode(name)] = std::make_shared<Node>(...)
InstallBinding(M, i) ==
  LET c  == ToCode(M, InitBindings[i][1])
      M1 == Alloc(c.M, InitBindings[i][2])
  IN  EnvSet(M1, 1, c.code, Top(M1))  \* frame 1 is global_env

\* the assignments lo..hi of init(), in order
RECURSIVE InstallBindings(_, _, _)
InstallBindings(M, lo, hi) ==
  IF lo = hi THEN InstallBinding(M, lo)
  ELSE LET mid  == (lo + hi) \div 2
           half == InstallBindings(M, lo, mid)
       IN  IF half.ub THEN half ELSE InstallBindings(half, mid + 1, hi)

\* the machine when init() returns
init ==
  InstallBindings(
    [heap |-> StaticHeap,
     frames |-> <<[env |-> EmptyMap, outer |-> 0]>>,
     macros |-> EmptyMap,
     symcode |-> EmptyMap, symname |-> <<>>,
     threads |-> <<>>,
     out |-> <<>>,
     cur |-> 0,
     k |-> <<>>,
     c |-> [tag |-> "ret", v |-> nil],
     oracle |-> "intact",
     ub |-> FALSE], 1, Len(InitBindings))

(***************************************************************************)
(* The interpreter process: the kernel's globals, the threads it spawned,  *)
(* its standard output and the position of the running evaluation.         *)
(*   out     : what has been written to standard output since init()       *)
(*             returned, each piece with the thread that wrote it          *)
(*   k, c    : the evaluator's stack and control (see Evaluator)           *)
(*   nevals  : how many lines the REPL has evaluated                       *)
(*   last    : the line the REPL evaluated last                            *)
(***************************************************************************)
VARIABLES heap, frames, macros, symcode, symname, threads, out, ub, k, c,
          nevals, last

\* the interpreter and its REPL
kernel ==
  <<heap, frames, macros, symcode, symname, threads, out, ub, k, c, nevals,
    last>>

\* A Tokenizer object on its own: the buffer `src` it was constructed on
\* and its registers `tz` (see TokStart).
VARIABLES src, tz

\* A value that is printed and read back: rt.val is its address, rt.txt its
\* printed form, rt.form the first form read from rt.txt (0 when there is
\* none) and rt.step how far this has gone.
VARIABLES rt

\* CreateMain of the ahead-of-time path: its arguments, its position and
\* the instructions it has appended to the entry block of `main`.
VARIABLES cm

\* argparse: the ArgParser `parser` as its Add... calls left it, the
\* argument vector `argv` and the registers `ap` of a ParseArgs call.
VARIABLES parser, argv, ap

\* The calls of ToCode made from outside the reader (get, set): the name
\* given and the code returned, in call order.
VARIABLES calls

\* A primitive applied from the host: the builtin `call.op` and the vector
\* `call.args` of operands it was given.
VARIABLES call

\* the state outside the interpreter
others == <<src, tz, rt, cm, parser, argv, ap, calls, call>>

vars == <<kernel, others>>

\* the interpreter's state as one record, the main thread running
Machine ==
  [heap |-> heap, frames |-> frames, macros |-> macros, symcode |-> symcode,
   symname |-> symname,
   threads |-> threads, out |-> out, cur |-> 0, k |-> k, c |-> c,
   oracle |-> "intact", ub |-> ub]

\* the interpreter's state becomes M
Install(M) ==
  /\ heap' = M.heap
  /\ frames' = M.frames
  /\ macros' = M.macros
  /\ symcode' = M.symcode
  /\ symname' = M.symname
  /\ threads' = M.threads
  /\ out' = M.out
  /\ ub' = M.ub
  /\ k' = M.k
  /\ c' = M.c

\* lines typed at the REPL
LineDefX == "(def x 10)"
LineSetX == "(set x (+ x 1)) x"
LineSetNil == "(set () 5)"
LineSetTrue == "(set (&&) false)"
LineDefMacro == "(defmacro unless (c body) (if c nil body))"
LineDefWhen == "(defmacro when (c body) (unless (! c) body))"
LineUnless == "(unless false 42)"
LineUnlessPrn == "(unless true (prn \"no\"))"
LineDefInFn == "(def g (fn () (def x 2) x)) (g)"
LineClosure == "(def c (fn () a)) (def a 1) (c)"
LineDefY == "(def y nil)"
LineSetYInFn == "(def h (fn () (set y 5))) (h) y"

Lines ==
  {LineDefX, LineSetX, LineSetNil, LineSetTrue, LineDefMacro, LineDefWhen,
   LineUnless, LineUnlessPrn, LineDefInFn, LineClosure, LineDefY,
   LineSetYInFn}

\* lines that spawn and join threads
LineSpawn ==
  "(def n 0) (def t1 (std::thread 0 (list ++ n))) (def t2 (std::thread 0 (list ++ n)))"
LineJoin == "(join t1) (join t2) n"
LineThread == "(def t (thread (prn \"hi\"))) (join t)"
LineStdThread == "(def t (std::thread (prn \"hi\"))) (join t)"

ThreadLines == {LineSpawn, LineJoin, LineThread, LineStdThread}

\* the variables hold machine M
Holds(M) ==
  /\ heap = M.heap
  /\ frames = M.frames
  /\ macros = M.macros
  /\ symcode = M.symcode
  /\ symname = M.symname
  /\ threads = M.threads
  /\ out = M.out
  /\ ub = M.ub
  /\ k = M.k
  /\ c = M.c

\* init() has returned and the REPL has read nothing
Started ==
  /\ Holds(init)
  /\ nevals = 0
  /\ last = ""

\* no Tokenizer has been constructed on its own
NoTokenizer == src = "" /\ tz = TokStart

\* no value is being printed and read back
NoRoundTrip == rt = [val |-> 0, txt |-> "", form |-> 0, step |-> "none"]

\* the ahead-of-time path has not been taken
NoCreateMain == cm = [pc |-> "none"]

\* the command line has not been parsed
NoParseArgs == parser = <<>> /\ argv = <<>> /\ ap = [status |-> "none"]

\* ToCode has been called by init() and the reader only
NoCalls == calls = <<>>

\* no primitive has been applied from the host
NoCall == call = [op |-> "none", args |-> <<>>]

Init ==
  /\ Started
  /\ NoTokenizer
  /\ NoRoundTrip
  /\ NoCreateMain
  /\ NoParseArgs
  /\ NoCalls
  /\ NoCall

\* threads whose lambda has not been entered yet
Spawned == {t \in 1..Len(threads) : threads[t].status = "spawned"}

\* no evaluation is in progress: the last call returned, or the process
\* faulted
AtRest == ub \/ (c.tag = "ret" /\ Len(k) = 0)

\* one turn of repl() on a complete line: eval_print(code)
EvalPrint(s, o) ==
  /\ ~ub
  /\ nevals < MaxEvals
  /\ ~tokenize(s).threw
  /\ Install(eval_print([Machine EXCEPT !.oracle = o], s))
  /\ AtRest'
  /\ Len(threads') <= MaxThreads
  /\ nevals' = nevals + 1
  /\ last' = s
  /\ UNCHANGED others

\* the lambda of thread t is entered and copies raw_args[1..]
ThreadStart(t, o) ==
  /\ ~ub
  /\ threads[t].status = "spawned"
  /\ Install(StartThread(Machine, t, o))
  /\ UNCHANGED <<nevals, last, others>>

\* whether form e applies the builtin `++` to a cell, both given as values
IsPlusPlusForm(e) ==
  /\ heap[e].type = "list"
  /\ Len(heap[e].l) >= 2
  /\ heap[heap[e].l[1]].type = "builtin"
  /\ Hosts[heap[heap[e].l[1]].u] = "builtin_plusplus"
  /\ heap[heap[e].l[2]].type \notin {"list", "symbol"}

\* thread t has finished an expression and moved idx past it: the lambda
\* returns after the last one.  M is the machine at the end of the eval.
ThreadDone(M, t) ==
  IF ~Done(M) THEN M
  ELSE [M EXCEPT !.cur = 0, !.k = <<>>, !.c = [tag |-> "ret", v |-> nil],
                 !.threads[t].status =
                    IF M.threads[t].idx > Len(M.threads[t].exprs)
                    THEN "done" ELSE "running"]

\* thread t evaluates its next expression in one piece
ThreadStep(t) ==
  /\ ~ub
  /\ threads[t].status = "running"
  /\ ~threads[t].mid
  /\ Install(ThreadDone(
       [Run(Ev([Machine EXCEPT !.cur = t, !.k = <<>>],
               threads[t].exprs[threads[t].idx], threads[t].env), MaxSteps)
          EXCEPT !.threads[t].idx = @ + 1], t))
  /\ AtRest'
  /\ UNCHANGED <<nevals, last, others>>

\* thread t, evaluating (++ cell), reads the cell: the load of `v_int++`
ThreadLoad(t) ==
  /\ ~ub
  /\ threads[t].status = "running"
  /\ ~threads[t].mid
  /\ IsPlusPlusForm(threads[t].exprs[threads[t].idx])
  /\ LET cell == heap[threads[t].exprs[threads[t].idx]].l[2] IN
     Install([NewFrame(Machine, 0) EXCEPT
                !.threads[t].mid = TRUE,
                !.threads[t].target = cell,
                !.threads[t].reg = PlusPlusLoad(heap, cell)])
  /\ UNCHANGED <<nevals, last, others>>

\* thread t writes the incremented value back: the store of `v_int++`
ThreadStore(t) ==
  /\ ~ub
  /\ threads[t].status = "running"
  /\ threads[t].mid
  /\ Install(ThreadDone(FlushStore(Machine, t), t))
  /\ UNCHANGED <<nevals, last, others>>

\* the REPL alone
Next == \E s \in Lines : EvalPrint(s, "intact")

Spec == Init /\ [][Next]_vars

\* the REPL and the threads it spawned
NextThreads ==
  \/ \E s \in ThreadLines :
       \E o \in (IF Spawned = {} THEN {"intact"} ELSE Outcomes) : EvalPrint(s, o)
  \/ \E t \in 1..Len(threads) : \E o \in Outcomes : ThreadStart(t, o)
  \/ \E t \in 1..Len(threads) : ThreadStep(t)
  \/ \E t \in 1..Len(threads) : ThreadLoad(t)
  \/ \E t \in 1..Len(threads) : ThreadStore(t)

SpecThreads == Init /\ [][NextThreads]_vars

\* the doubly recursive Fibonacci program of the README, applied to n
FibProgram(n) ==
  "(def f (fn (n) (if (< n 2) n (+ (f (- n 1)) (f (- n 2)))))) (f "
    \o IntToStr(n) \o ")"

\* repl() reads the line s and eval_print enters the evaluation of its forms
Begin(s) ==
  /\ AtRest
  /\ ~ub
  /\ nevals < 1
  /\ ~tokenize(s).threw
  /\ Install(EnterPrint(Machine, s))
  /\ nevals' = nevals + 1
  /\ last' = s
  /\ UNCHANGED others

\* the evaluation in progress goes on for at most SliceSteps steps
Slice ==
  /\ ~AtRest
  /\ Install(Run(Machine, SliceSteps))
  /\ UNCHANGED <<nevals, last, others>>

\* the REPL given one Fibonacci program, observed while it runs
NextFib ==
  \/ \E n \in 0..MaxFib : Begin(FibProgram(n))
  \/ Slice

SpecFib == Init /\ [][NextFib]_vars

\* lines that build lists and change them in place
LineDefXs == "(def xs (list 1 2 3))"
LinePush == "(push-back! xs 4)"
LineDefYs == "(def ys (list))"
LinePushList == "(push-back! ys (list 5))"
LineDefPusher == "(def f (fn (l) (push-back! l 4) (length l)))"
LineCallPusher == "(f xs)"
LinePop == "(pop-back! xs)"
LineLength == "(length xs)"
LineStdMap == "(std::map (fn (x) (* x x)) (list 1 2 3))"
LineMap == "(map (fn (x) (* x x)) (list 1 2 3))"
LineSetYs == "(set ys xs)"

ListLines ==
  {LineDefXs, LinePush, LineDefYs, LinePushList, LineDefPusher,
   LineCallPusher, LinePop, LineLength, LineStdMap, LineMap, LineSetYs}

\* the REPL given lines about lists
NextLists == \E s \in ListLines : EvalPrint(s, "intact")

SpecLists == Init /\ [][NextLists]_vars

(***************************************************************************)
(* The tokenizer on its own: a Tokenizer is constructed on a buffer and    *)
(* tokenize() runs on it, one turn of its loops at a time.                 *)
(***************************************************************************)
\* the characters the buffers are made of
TokChars == {"(", ")", "\"", "\\", ";", "\n", " ", "a"}

\* the buffers of at most n characters
RECURSIVE Buffers(_)
Buffers(n) ==
  IF n = 0 THEN {""}
  ELSE LET B == Buffers(n - 1) IN B \cup {b \o ch : b \in B, ch \in TokChars}

\* Tokenizer(s): the interpreter is idle, as init() left it
InitTok ==
  /\ Started
  /\ src \in Buffers(MaxBuf)
  /\ tz = TokStart
  /\ NoRoundTrip
  /\ NoCreateMain
  /\ NoParseArgs
  /\ NoCalls
  /\ NoCall

\* one turn of the for loop
TopTurn ==
  /\ ~tz.done
  /\ tz.mode = "top"
  /\ tz' = TokTop(src, Last(src), tz)
  /\ UNCHANGED <<kernel, src, rt, cm, parser, argv, ap, calls, call>>

\* one turn of the loop that skips a comment
CommentTurn ==
  /\ ~tz.done
  /\ tz.mode = "comment"
  /\ tz' = TokComment(src, Last(src), tz)
  /\ UNCHANGED <<kernel, src, rt, cm, parser, argv, ap, calls, call>>

\* one turn of the loop that reads a string literal
StringTurn ==
  /\ ~tz.done
  /\ tz.mode = "string"
  /\ tz' = TokString(src, Last(src), tz)
  /\ UNCHANGED <<kernel, src, rt, cm, parser, argv, ap, calls, call>>

NextTok == TopTurn \/ CommentTurn \/ StringTurn

SpecTok == InitTok /\ [][NextTok]_vars

(***************************************************************************)
(* Printing a value and reading it back: to_string, then parse.            *)
(***************************************************************************)
\* A value to build is written as a Node whose v_list holds the values of
\* its elements instead of their addresses.
ListOf(elems) == [NodeList(<<>>) EXCEPT !.l = elems]

Atoms ==
  {NodeNil, NodeInt(0), NodeInt(-3), NodeInt(12), NodeDouble(1500),
   NodeDouble(2000), NodeBool(TRUE), NodeBool(FALSE), NodeString("hi"),
   NodeString("a b"), NodeSymbol("x", 0), NodeSymbol("foo", 0)}

\* the sequences of at most n members of S
SeqsUpTo(S, n) == UNION {[1..m -> S] : m \in 0..n}

\* values that are elements of a list of lists
Inner ==
  {NodeInt(12), NodeSymbol("x", 0), ListOf(<<>>),
   ListOf(<<NodeInt(-3), NodeSymbol("foo", 0)>>)}

Values ==
  Atoms \cup {ListOf(s) : s \in SeqsUpTo(Atoms, MaxList)}
        \cup {ListOf(s) : s \in SeqsUpTo(Inner, MaxList)}

\* the nodes of value v are allocated, the elements of a list before the
\* list, a symbol interned as the reader interns it; v is the top cell
RECURSIVE Build(_, _)
RECURSIVE BuildAll(_, _, _, _)
BuildAll(M, elems, i, acc) ==
  IF i > Len(elems) THEN Alloc(M, NodeList(acc))
  ELSE LET M1 == Build(M, elems[i]) IN
       BuildAll(M1, elems, i + 1, Append(acc, Top(M1)))

Build(M, v) ==
  IF v.type = "list" THEN BuildAll(M, v.l, 1, <<>>)
  ELSE IF v.type = "symbol"
  THEN LET cd == ToCode(M, v.s) IN Alloc(cd.M, NodeSymbol(v.s, cd.code))
  ELSE Alloc(M, v)

\* the interpreter holds a value and nothing has been printed
InitRT ==
  /\ \E v \in Values : Holds(Build(init, v))
  /\ nevals = 0
  /\ last = ""
  /\ rt = [val |-> Len(heap), txt |-> "", form |-> 0, step |-> "built"]
  /\ NoTokenizer
  /\ NoCreateMain
  /\ NoParseArgs
  /\ NoCalls
  /\ NoCall

\* v->to_string()
PrintValue ==
  /\ rt.step = "built"
  /\ rt' = [rt EXCEPT !.txt = to_string(heap, rt.val), !.step = "printed"]
  /\ UNCHANGED <<kernel, src, tz, cm, parser, argv, ap, calls, call>>

\* parse(txt) when tokenize throws
ReadThrows ==
  /\ rt.step = "printed"
  /\ tokenize(rt.txt).threw
  /\ rt' = [rt EXCEPT !.step = "threw"]
  /\ UNCHANGED <<kernel, src, tz, cm, parser, argv, ap, calls, call>>

\* the forms parser p returned: the first one, 0 when there is none
FirstForm(p) == IF Len(p.stack[1]) > 0 THEN p.stack[1][1] ELSE 0

ReadParsed(p) ==
  /\ Install(p.M)
  /\ rt' = [rt EXCEPT !.form = FirstForm(p), !.step = "read"]

\* parse(txt)[0]
ReadBack ==
  /\ rt.step = "printed"
  /\ ~tokenize(rt.txt).threw
  /\ ReadParsed(parse(Machine, rt.txt))
  /\ UNCHANGED <<nevals, last, src, tz, cm, parser, argv, ap, calls, call>>

NextRT == PrintValue \/ ReadThrows \/ ReadBack

SpecRT == InitRT /\ [][NextRT]_vars

(***************************************************************************)
(* Symbol interning: to_code called with names, known and new.             *)
(***************************************************************************)
Names == {"def", "prn", "alpha", "beta", ""}

\* ToCode(name) returned cd
Interned(name, cd) ==
  /\ Install(cd.M)
  /\ calls' = Append(calls, [name |-> name, code |-> cd.code])

\* size_t code = ToCode(name)
Intern(name) ==
  /\ Len(calls) < MaxCalls
  /\ Interned(name, ToCode(Machine, name))
  /\ UNCHANGED <<nevals, last, src, tz, rt, cm, parser, argv, ap, call>>

NextSym == \E name \in Names : Intern(name)

SpecSym == Init /\ [][NextSym]_vars

(***************************************************************************)
(* The arithmetic primitives applied to operands of every numeric kind.    *)
(***************************************************************************)
ArithOps == {"builtin_plus", "builtin_minus", "builtin_mul"}

ArithOperands ==
  {NodeInt(1), NodeInt(-2), NodeDouble(1500), NodeDouble(2500),
   NodeBool(TRUE), NodeBool(FALSE)}

\* op(args, env) from entry to return, args the vector in the top cell of b
Applied(op, b) ==
  /\ Install(Run(Host(b, HostId(op), b.heap[Top(b)].l, global_env), MaxSteps))
  /\ call' = [op |-> op, args |-> b.heap[Top(b)].l]

\* the operands are allocated and the primitive is applied to them
ArithCall(op, operands) ==
  /\ call.op = "none"
  /\ Applied(op, BuildAll(Machine, operands, 1, <<>>))
  /\ UNCHANGED <<nevals, last, src, tz, rt, cm, parser, argv, ap, calls>>

NextArith ==
  \E op \in ArithOps :
    \E operands \in SeqsUpTo(ArithOperands, MaxOperands) \ {<<>>} :
      ArithCall(op, operands)

SpecArith == Init /\ [][NextArith]_vars

(***************************************************************************)
(* The ahead-of-time path: CreateMain appends instructions to the entry    *)
(* block of the `main` it adds to the module.  An instruction is a record  *)
(* [op, callee, args]; `ret` has the value returned as its only argument.  *)
(***************************************************************************)
kParenInitName == "paren_init"
kParenEvalStringName == "paren_eval_string"
kParenImportName == "paren_import"

\* LLVMBuildCall2(builder, type, func, params, n, "")
BuildCall(body, callee, args) ==
  Append(body, [op |-> "call", callee |-> callee, args |-> args])

\* LLVMBuildRet(builder, value)
BuildRet(body, value) ==
  Append(body, [op |-> "ret", callee |-> "", args |-> <<value>>])

\* the working directory of the compiler
Cwd == "/w"

\* std::filesystem::absolute(path)
Absolute(path) == IF At(path, 0) = "/" THEN path ELSE Cwd \o "/" \o path

\* the range-for over imports taken from the last one
ImportAtReversed(imports, i) == imports[Len(imports) + 1 - i]

\* the i-th turn of `for (std::string_view import_module : imports)`
ImportAt(imports, i) == imports[i]

\* source files and import lists given to Compile
Sources == {"(prn 1)", "(def x 2) (prn x)"}

ImportNames == {"a.paren", "lib/b.paren", "/abs/c.paren"}

\* CreateMain(mod, contents, imports) is entered on a module without
\* functions
InitMain ==
  /\ Started
  /\ \E contents \in Sources :
       \E imports \in SeqsUpTo(ImportNames, MaxImports) :
         cm = [pc |-> "init", contents |-> contents, imports |-> imports,
               i |-> 1, body |-> <<>>]
  /\ NoTokenizer
  /\ NoRoundTrip
  /\ NoParseArgs
  /\ NoCalls
  /\ NoCall

\* "Initialize the runtime."
EmitInit ==
  /\ cm.pc = "init"
  /\ cm' = [cm EXCEPT !.body = BuildCall(@, kParenInitName, <<>>),
                       !.pc = "imports"]
  /\ UNCHANGED <<kernel, src, tz, rt, parser, argv, ap, calls, call>>

\* "Call any imports.": one turn of the loop
EmitImport ==
  /\ cm.pc = "imports"
  /\ cm.i <= Len(cm.imports)
  /\ cm' = [cm EXCEPT !.body = BuildCall(@, kParenImportName,
                                 <<Absolute(ImportAt(cm.imports, cm.i))>>),
                       !.i = @ + 1]
  /\ UNCHANGED <<kernel, src, tz, rt, parser, argv, ap, calls, call>>

\* "Just run the code."
EmitEval ==
  /\ cm.pc = "imports"
  /\ cm.i > Len(cm.imports)
  /\ cm' = [cm EXCEPT !.body = BuildCall(@, kParenEvalStringName,
                                         <<cm.contents>>),
                       !.pc = "ret"]
  /\ UNCHANGED <<kernel, src, tz, rt, parser, argv, ap, calls, call>>

\* LLVMBuildRet(builder, zero)
EmitRet ==
  /\ cm.pc = "ret"
  /\ cm' = [cm EXCEPT !.body = BuildRet(@, 0), !.pc = "done"]
  /\ UNCHANGED <<kernel, src, tz, rt, parser, argv, ap, calls, call>>

NextMain == EmitInit \/ EmitImport \/ EmitEval \/ EmitRet

SpecMain == InitMain /\ [][NextMain]_vars

(***************************************************************************)
(* The REPL on lines that trace the order of evaluation and that make and  *)
(* apply closures.                                                         *)
(***************************************************************************)
LineTrace ==
  "((begin (pr 0) (fn (a b) (pr 3) (- a b))) (begin (pr 1) 5) (begin (pr 2) 2))"
LineScope == "(def g1 (fn () q1)) (def h1 (fn (q1) (g1))) (h1 5)"
LineDefN == "(def n 0)"
LineDefTick == "(def tick (fn () (++ n)))"
LineTick == "(tick)"
LineDefMk == "(def mk (fn (v) (fn (w) (+ v w))))"
LineMk == "(def v 100) ((mk 1) 2)"
LineWhile == "(def i 0) (while (< i 2) (pr i) (++ i))"
LineIfList == "(if (list) 1 2)"
LineLiteral == "(def lit (fn () (++ 1))) (lit)"
LineCallLit == "(lit)"

FormLines ==
  {LineTrace, LineScope, LineDefN, LineDefTick, LineTick, LineDefMk, LineMk,
   LineWhile, LineIfList, LineLiteral, LineCallLit}

NextForms == \E s \in FormLines : EvalPrint(s, "intact")

SpecForms == Init /\ [][NextForms]_vars

(***************************************************************************)
(* argparse.  A std::any is a record [kind, b, s, l]; an optional any is   *)
(* [has, any].  An Argument is [name, action, const, default]; the parser  *)
(* keeps known_args_ (name -> Argument), pos_args_ (the names of the       *)
(* positionals in declaration order), opt_args_ (the names of the          *)
(* options) and short_name_map_ (character -> name).                       *)
(***************************************************************************)
AnyString(s) == [kind |-> "string", b |-> FALSE, s |-> s, l |-> <<>>]
AnyBool(b) == [kind |-> "bool", b |-> b, s |-> "", l |-> <<>>]
AnyList(l) == [kind |-> "list", b |-> FALSE, s |-> "", l |-> l]

NoValue == [has |-> FALSE, any |-> AnyBool(FALSE)]
Some(a) == [has |-> TRUE, any |-> a]

\* Argument(name, action)
Argument(name, action) ==
  [name |-> name, action |-> action, const |-> NoValue, default |-> NoValue]

isStore(arg) == arg.action = "STORE"
isStoreConst(arg) == arg.action \in {"STORE_CONST", "STORE_TRUE", "STORE_FALSE"}
isAppend(arg) == arg.action = "APPEND"

\* ArgParser::AddPosArg
AddPosArg(p, arg) ==
  [p EXCEPT !.known_args_ = Put(@, arg, Argument(arg, "STORE")),
            !.pos_args_ = Append(@, arg)]

\* ArgParser::AddOptArg(arg)
AddOptArg(p, arg) ==
  [p EXCEPT !.known_args_ = Put(@, arg, Argument(arg, "STORE")),
            !.opt_args_ = @ \cup {arg}]

\* ArgParser::AddOptArg(argname, short_name)
AddOptArgShort(p, argname, short_name) ==
  [AddOptArg(p, argname) EXCEPT
     !.short_name_map_ = Put(@, short_name, argname)]

\* the action and the constant without the default
setStoreTrueOnly(p, name) ==
  [p EXCEPT !.known_args_[name] =
     [@ EXCEPT !.action = "STORE_TRUE", !.const = Some(AnyBool(TRUE))]]

\* Argument::setStoreTrue on the argument `name` of p
setStoreTrue(p, name) ==
  [p EXCEPT !.known_args_[name] =
     [@ EXCEPT !.action = "STORE_TRUE", !.const = Some(AnyBool(TRUE)),
               !.default = Some(AnyBool(FALSE))]]

\* Argument::setAppend
setAppend(p, name) == [p EXCEPT !.known_args_[name].action = "APPEND"]

\* Argument::setDefault
setDefault(p, name, def) == [p EXCEPT !.known_args_[name].default = Some(def)]

\* Argument::setDefaultList
setDefaultList(p, name) == setDefault(p, name, AnyList(<<>>))

\* ArgParser(): "Always add a --help option."
ArgParser ==
  setStoreTrue(
    AddOptArgShort(
      [known_args_ |-> EmptyMap, pos_args_ |-> <<>>, opt_args_ |-> {},
       short_name_map_ |-> EmptyMap], "help", "h"), "help")

isLongOptArg(arg) == Len(arg) >= 2 /\ SubSeq(arg, 1, 2) = "--"

isShortOptArg(arg) ==
  IF isLongOptArg(arg) THEN FALSE ELSE At(arg, 0) = "-" /\ Len(arg) = 2

isOptArg(arg) == isLongOptArg(arg) \/ isShortOptArg(arg)

\* getArgName of an option: `found` is what the assert on the short name
\* tests
getArgName(p, cmd_arg) ==
  IF isShortOptArg(cmd_arg)
  THEN IF At(cmd_arg, 1) \in DOMAIN p.short_name_map_
       THEN [found |-> TRUE, name |-> p.short_name_map_[At(cmd_arg, 1)]]
       ELSE [found |-> FALSE, name |-> ""]
  ELSE [found |-> TRUE, name |-> SubSeq(cmd_arg, 3, Len(cmd_arg))]

\* an assert fails in a build that keeps asserts: abort()
Abort(a) == [a EXCEPT !.status = "aborted"]

\* what follows is undefined: an end iterator is dereferenced, or a string
\* is made from the null pointer argv[argc]
Undefined(a) == [a EXCEPT !.status = "undefined"]

\* Namespace::EmplaceArg / Namespace::AddArg: insert, then
\* assert(inserted); without asserts a second insert changes nothing
AddArg(a, name, val) ==
  IF name \in DOMAIN a.ns
  THEN IF a.ndebug THEN a ELSE Abort(a)
  ELSE [a EXCEPT !.ns = Put(@, name, val)]

\* only the last value given is kept
AppendStringArgKeepsLast(a, name, val) ==
  [a EXCEPT !.ns = Put(@, name, AnyList(<<val>>))]

\* Namespace::AppendStringArg
AppendStringArg(a, name, val) ==
  IF name \in DOMAIN a.ns
  THEN [a EXCEPT !.ns[name] = AnyList(Append(@.l, val))]
  ELSE [a EXCEPT !.ns = Put(@, name, AnyList(<<val>>))]

\* the position after the positional that was just assigned, without ++
SamePosArgIdx(idx) == idx

\* ++pos_arg_idx
NextPosArgIdx(idx) == idx + 1

\* the option's own position taken for that of its value
ValueIndexSame(i) == i

\* "++i;  // Advance past this argument."
ValueIndex(i) == i + 1

\* the for loop's ++i after a turn that did not stop the parse
Advance(a) == IF a.status = "loop" THEN [a EXCEPT !.i = @ + 1] ELSE a

\* the turn of the loop of ParseArgs for an option; argvec[j + 1] is the
\* code's argv[j] and argc is Len(argvec)
OptTurn(p, argvec, a) ==
  LET nm == getArgName(p, argvec[a.i + 1]) IN
  IF ~nm.found \/ nm.name \notin p.opt_args_
  THEN IF a.ndebug THEN Undefined(a) ELSE Abort(a)
  ELSE
    LET arg == p.known_args_[nm.name]
        j   == ValueIndex(a.i)
    IN
    IF isStoreConst(arg) THEN AddArg(a, arg.name, arg.const.any)
    ELSE IF isAppend(arg)
    THEN IF j >= Len(argvec)
         THEN Undefined([a EXCEPT !.i = j, !.beyond = TRUE])
         ELSE AppendStringArg([a EXCEPT !.i = j], arg.name, argvec[j + 1])
    ELSE IF j >= Len(argvec)
         THEN IF a.ndebug
              THEN Undefined([a EXCEPT !.i = j, !.beyond = TRUE])
              ELSE Abort([a EXCEPT !.i = j])
         ELSE AddArg([a EXCEPT !.i = j], arg.name, AnyString(argvec[j + 1]))

\* the turn for a positional; without asserts pos_args_.at throws
PosTurn(p, argvec, a) ==
  IF a.pos_arg_idx >= Len(p.pos_args_)
  THEN IF a.ndebug THEN [a EXCEPT !.status = "threw"] ELSE Abort(a)
  ELSE
    LET arg == p.known_args_[p.pos_args_[a.pos_arg_idx + 1]] IN
    IF ~isStore(arg) /\ ~a.ndebug THEN Abort(a)
    ELSE AddArg([a EXCEPT !.pos_arg_idx = NextPosArgIdx(@)], arg.name,
                AnyString(argvec[a.i + 1]))

\* one turn of `for (int i = 1; i < argc; ++i)`
ParseTurn(p, argvec, a) ==
  Advance(IF isOptArg(argvec[a.i + 1]) THEN OptTurn(p, argvec, a)
          ELSE PosTurn(p, argvec, a))

\* no argument gets its default
AddDefaultsToNone(p, names, a) == a

\* "Do another iteration going over args with default values."
RECURSIVE AddDefaults(_, _, _)
AddDefaults(p, names, a) ==
  IF names = {} THEN a
  ELSE LET name == CHOOSE n \in names : TRUE
           arg  == p.known_args_[name]
       IN  AddDefaults(p, names \ {name},
             IF name \in DOMAIN a.ns \/ ~arg.default.has THEN a
             ELSE AddArg(a, arg.name, arg.default.any))

\* `Namespace ns; size_t pos_arg_idx = 0;` and i = 1
EnterParseArgs(ndebug) ==
  [status |-> "loop", i |-> 1, pos_arg_idx |-> 0, ns |-> EmptyMap,
   beyond |-> FALSE, ndebug |-> ndebug]

\* the loop has ended: the defaults are added and ns is returned
ReturnNamespace(p, a) ==
  [AddDefaults(p, DOMAIN p.known_args_, a) EXCEPT !.status = "returned"]

\* ParseArgs(argc, argv) from entry to return
RECURSIVE ParseLoop(_, _, _)
ParseLoop(p, argvec, a) ==
  IF a.status # "loop" THEN a
  ELSE IF a.i >= Len(argvec) THEN ReturnNamespace(p, a)
  ELSE ParseLoop(p, argvec, ParseTurn(p, argvec, a))

ParseArgs(p, argvec, ndebug) == ParseLoop(p, argvec, EnterParseArgs(ndebug))

\* the parser of the tests: two positionals, a STORE option with a short
\* name, a store-true option, an APPEND option with a short name, an
\* APPEND option with a default list and a STORE option with a default
TestParser ==
  setDefault(AddOptArg(
    setDefaultList(setAppend(AddOptArg(
      setAppend(AddOptArgShort(
        setStoreTrue(AddOptArg(
          AddOptArgShort(
            AddPosArg(AddPosArg(ArgParser, "pos1"), "pos2"),
            "opt", "o"),
          "flag"), "flag"),
        "list", "l"), "list"),
      "deflist"), "deflist"), "deflist"),
    "level"), "level", AnyString("1"))

\* what is typed after the program name
Words == {"arg1", "arg2", "--opt", "-o", "--flag", "--list", "-l", "--zz"}

\* main has built the parser and calls ParseArgs(argc, argv), in a build
\* with asserts or in one without
InitArgs ==
  /\ Started
  /\ parser = TestParser
  /\ \E words \in SeqsUpTo(Words, MaxArgs) : argv = <<"exe">> \o words
  /\ \E ndebug \in BOOLEAN : ap = EnterParseArgs(ndebug)
  /\ NoTokenizer
  /\ NoRoundTrip
  /\ NoCreateMain
  /\ NoCalls
  /\ NoCall

\* a turn of the loop on an option
OptionTurn ==
  /\ ap.status = "loop"
  /\ ap.i < Len(argv)
  /\ isOptArg(argv[ap.i + 1])
  /\ ap' = ParseTurn(parser, argv, ap)
  /\ UNCHANGED <<kernel, src, tz, rt, cm, parser, argv, calls, call>>

\* a turn of the loop on a positional
PositionalTurn ==
  /\ ap.status = "loop"
  /\ ap.i < Len(argv)
  /\ ~isOptArg(argv[ap.i + 1])
  /\ ap' = ParseTurn(parser, argv, ap)
  /\ UNCHANGED <<kernel, src, tz, rt, cm, parser, argv, calls, call>>

\* the loop ends, the defaults are added and ParseArgs returns
Return ==
  /\ ap.status = "loop"
  /\ ap.i >= Len(argv)
  /\ ap' = ReturnNamespace(parser, ap)
  /\ UNCHANGED <<kernel, src, tz, rt, cm, parser, argv, calls, call>>

NextArgs == OptionTurn \/ PositionalTurn \/ Return

SpecArgs == InitArgs /\ [][NextArgs]_vars

(***************************************************************************)
(* Properties.                                                             *)
(***************************************************************************)
\* the name has a binding in the global environment
Bound(name) ==
  SymFound(symcode, name)
    /\ EnvHas(frames, global_env, ToCodeValue(symcode, name))

\* the call that produced machine r returned the int n
ReturnsInt(r, n) ==
  /\ Done(r)
  /\ ~r.ub
  /\ r.heap[Value(r)].type = "int"
  /\ r.heap[Value(r)].u = n

\* the call that produced machine r returned a value of variant t
ReturnsType(r, t) == Done(r) /\ ~r.ub /\ r.heap[Value(r)].type = t

\* the call that produced machine r left every frame and every cell that
\* existed before it as they were
LeavesStateAlone(r) ==
  /\ SubSeq(r.frames, 1, Len(frames)) = frames
  /\ SubSeq(r.heap, 1, Len(heap)) = heap

\* the forms at address a of heap h1 and address b of heap h2 are
\* structurally equal; a symbol is its name
RECURSIVE SameForm(_, _, _, _)
SameForm(h1, a, h2, b) ==
  /\ h1[a].type = h2[b].type
  /\ h1[a].s = h2[b].s
  /\ (h1[a].type = "symbol" \/ h1[a].u = h2[b].u)
  /\ Len(h1[a].l) = Len(h2[b].l)
  /\ \A i \in 1..Len(h1[a].l) : SameForm(h1, h1[a].l[i], h2, h2[b].l[i])

\* eval(n, env) from entry to return, n the node allocated last and env
\* the frame f
EvalTop(M, f) == Run(Ev([M EXCEPT !.k = <<>>], Top(M), f), MaxSteps)

\* the call that produced machine r returned the bool b
ReturnsBool(r, b) ==
  ReturnsType(r, "bool") /\ v_bool(r.heap[Value(r)]) = b

\* C1 (as stated): in every reachable state, whatever was evaluated before,
\* a symbol with no binding in any frame of an environment chain evaluates
\* to a value of variant nil.
C1_UndefinedSymbolIsNil ==
  ~ub => \A f \in 1..Len(frames) : \A code \in 0..Len(symname) :
           ~EnvHas(frames, f, code)
             => ReturnsType(EvalTop(Alloc(Machine, NodeSymbol("", code)), f),
                            "nil")

\* C2 (as stated): in every reachable state (&&) returns the bool true and
\* (||) returns the bool false.
C2_EmptyAndOr ==
  ~ub => /\ ReturnsBool(eval_string(Machine, "(&&)"), TRUE)
         /\ ReturnsBool(eval_string(Machine, "(||)"), FALSE)

\* calls of a function whose body executes def, on a name that may be bound
\* outside (x) and on one that never is (w)
DefProbes ==
  {"((fn () (def x 2) x))", "((fn () (def w 2) w))",
   "((fn (x) (if true (def x 2)) x) 1)",
   "((fn () (+ (def x 1) (def w 1))))"}

\* C3: a def executed inside a function body binds in the call's local
\* frame only: the call returns the value def bound (2), and every frame
\* that existed before the call, the global environment included, has the
\* same bindings to the same values after it; a name unbound outside stays
\* unbound outside.
C3_DefInFunctionIsLocal ==
  ~ub => \A s \in DefProbes :
           /\ ReturnsInt(eval_string(Machine, s), 2)
           /\ LeavesStateAlone(eval_string(Machine, s))

\* C3 happens: after (def x 10), a call of a function that executes
\* (def x 2) returned 2 and the global x is still 10
C3_Witness ==
  /\ last = LineDefInFn
  /\ ~ub
  /\ heap[c.v] = NodeInt(2)
  /\ Bound("x")
  /\ heap[EnvGet(frames, global_env, ToCodeValue(symcode, "x"))] = NodeInt(10)

\* a closure made before the name it reads is defined in the enclosing frame
ClosureThenDef == "(def c (fn () a)) (def a 1) (c)"

\* C4 (as stated): a def performed in the enclosing frame after the closure
\* was created is not visible inside the closure body when the name did not
\* exist in that frame at creation: the body's lookup of the name yields nil.
C4_LaterDefNotVisible ==
  (~ub /\ ~Bound("a"))
    => ReturnsType(eval_string(Machine, ClosureThenDef), "nil")

\* C4 (amended): a closure reads the enclosing frames themselves, not the
\* bindings they had at capture: a later set of an enclosing variable is
\* visible inside the body, and so is a later def in the enclosing frame,
\* global or local, whether or not the name existed at creation.
C4_LaterDefVisible ==
  ~ub => /\ ReturnsInt(eval_string(Machine, ClosureThenDef), 1)
         /\ ReturnsInt(eval_string(Machine,
              "((fn () (def c (fn () b)) (def b 3) (c)))"), 3)
         /\ ReturnsInt(eval_string(Machine,
              "(def a 1) (def c (fn () a)) (set a 2) (c)"), 2)
         /\ ReturnsInt(eval_string(Machine,
              "(def a 1) (def c (fn () a)) (def a 4) (c)"), 4)

\* C4 happens: the REPL evaluated the closure line in a state where `a` had
\* never been defined and the call of the closure returned 1
C4_Witness ==
  /\ last = LineClosure
  /\ nevals = 1
  /\ ~ub
  /\ heap[c.v] = NodeInt(1)
  /\ out = <<[by |-> 0, text |-> "1 : int\n"]>>

\* the Fibonacci numbers
RECURSIVE Fibonacci(_)
Fibonacci(n) == IF n < 2 THEN n ELSE Fibonacci(n - 1) + Fibonacci(n - 2)

\* C5: a function bound with (def f (fn ...)) calls itself by the name f:
\* whenever the REPL has finished the doubly recursive Fibonacci program
\* for an n up to MaxFib, the call returned the int fib(n) and exactly the
\* line `fib(n) : int` was printed; for (f 10) that is 55.
C5_RecursiveFib ==
  \A n \in 0..MaxFib :
    (last = FibProgram(n) /\ AtRest)
      => /\ ReturnsInt(Machine, Fibonacci(n))
         /\ out = <<[by |-> 0, text |-> IntToStr(Fibonacci(n)) \o " : int\n"]>>
         /\ (n = 10 => out[1].text = "55 : int\n")

\* C5 happens: the REPL finished (f 10) and printed 55
C5_Witness ==
  /\ last = FibProgram(10)
  /\ AtRest
  /\ ~ub
  /\ heap[c.v] = NodeInt(55)
  /\ out = <<[by |-> 0, text |-> "55 : int\n"]>>

\* a set, inside a function, of a global variable that holds nil
SetOfNilVariable == "(def y nil) ((fn () (set y 5))) y"

\* a set, inside a function, of a name with no binding anywhere
SetOfUnbound == "((fn () (set w 5) w))"

C7_ThreadEvaluatesForms ==
  ~ub => /\ last = LineThread => \E i \in 1..Len(out) : out[i].text = "hi"
         /\ \A i \in 1..Len(out) : out[i].text = "hi" => out[i].by # 0

\* C8: there is no mutual exclusion around a shared cell: the step by which
\* a thread completes its `++` (a step of the thread, the REPL not moving)
\* writes the value the thread loaded, plus one, whatever the cell holds by
\* then, so an increment another thread stored in between is lost.
C8_StoreIgnoresCell ==
  [][\A t \in 1..Len(threads) :
       (nevals' = nevals /\ threads[t].mid /\ ~threads'[t].mid)
         => heap'[threads[t].target].u = threads[t].reg + 1]_vars

\* C8 happens: two threads have each finished one `++` of the same cell,
\* which started at 0, and the cell holds 1
C8_Witness ==
  /\ ~ub
  /\ Len(threads) = 2
  /\ \A t \in 1..2 : threads[t].status = "done" /\ ~threads[t].mid
  /\ threads[1].target = threads[2].target
  /\ threads[1].target # 0
  /\ heap[threads[1].target] = NodeInt(1)

\* compile applied again to the forms compile returned
Recompile(cr) == CompileChildren(cr.M, cr.ret, 1, <<>>)

\* two results of compile hold structurally equal forms
SameForms(c1, c2) ==
  /\ ~c2.M.ub
  /\ Len(c1.ret) = Len(c2.ret)
  /\ \A i \in 1..Len(c1.ret) :
       SameForm(c2.M.heap, c1.ret[i], c2.M.heap, c2.ret[i])

\* compiling what compile returned changes nothing, when the first compile
\* left the macro table as it was
Idempotent(cr) ==
  (~cr.M.ub /\ cr.M.macros = macros)
    => (Recompile(cr).M.macros = macros /\ SameForms(cr, Recompile(cr)))

\* forms given to compile: atoms, the empty list, macro calls, nested and
\* quoted macro calls, a macro name in head position as a string and as the
\* result of a macro call, a defmacro
CompileForms ==
  {"x", "()", "(unless false 42)", "(when a (unless b 1))",
   "(quote (unless a b))", "(\"unless\" a b)", "((unless a f) (when b 1))",
   "(f (unless a (quote (when b c))) 3) (when (when a b) c)",
   "(defmacro unless (c body) (if c body nil))"}

\* C9: for a fixed macro table compile is idempotent: in every reachable
\* state, for every form, compiling the compiled form yields a form
\* structurally equal to it, provided the first compile recorded no macro.
C9_CompileIdempotent ==
  ~ub => \A f \in CompileForms : Idempotent(compile_all(parse(Machine, f)))

\* the first compiled form of cr is a call of `if` that compile leaves alone
ExpandedToIf(cr) ==
  /\ ~cr.M.ub
  /\ cr.M.macros = macros
  /\ cr.M.heap[cr.M.heap[cr.ret[1]].l[1]].s = "if"
  /\ SameForms(cr, Recompile(cr))

\* C9 happens: with the macros `unless` and `when` recorded, compile
\* expanded a nested macro call and compiling the result changed nothing
C9_Witness ==
  /\ ~ub
  /\ "unless" \in DOMAIN macros
  /\ "when" \in DOMAIN macros
  /\ ExpandedToIf(compile_all(parse(Machine, "(when a (unless b 1))")))

\* the first form of compile's result cr is the first form reader p read
CompilesTo(cr, p) ==
  ~cr.M.ub /\ SameForm(cr.M.heap, cr.ret[1], p.M.heap, p.stack[1][1])

\* the call that produced machine r returned without printing anything
PrintsNothing(r) == Done(r) /\ ~r.ub /\ r.out = out

\* C10: once (defmacro unless (c body) (if c nil body)) is recorded, compile
\* replaces a call of unless by the body with each parameter replaced by
\* the argument form at its position, unevaluated, and the expansion is
\* evaluated in place of the call: (unless false 42) yields the int 42, and
\* an argument the expansion does not select is not evaluated.
C10_MacroCallExpands ==
  (~ub /\ "unless" \in DOMAIN macros)
    => /\ CompilesTo(compile_all(parse(Machine, "(unless (f x) (g y))")),
                     parse(Machine, "(if (f x) nil (g y))"))
       /\ ReturnsInt(eval_string(Machine, LineUnless), 42)
       /\ PrintsNothing(eval_string(Machine, LineUnless))
       /\ PrintsNothing(eval_string(Machine, LineUnlessPrn))

\* C10 happens: the REPL evaluated (unless false 42) with the macro
\* recorded and printed 42
C10_Witness ==
  /\ last = LineUnless
  /\ ~ub
  /\ "unless" \in DOMAIN macros
  /\ heap[c.v] = NodeInt(42)
  /\ out[Len(out)] = [by |-> 0, text |-> "42 : int\n"]

\* the number of characters of s equal to ch
RECURSIVE CountChar(_, _)
CountChar(s, ch) ==
  IF Len(s) = 0 THEN 0
  ELSE (IF At(s, 0) = ch THEN 1 ELSE 0) + CountChar(Tail(s), ch)

\* The lexical structure of a buffer, read off the rules of the language:
\* from position pos in context ctx ("code", "comment", "string"), `net` is
\* the number of ( minus the number of ) that stand outside string
\* literals and comments, and `open` is 1 when the buffer ends inside a
\* string literal.
RECURSIVE Lexical(_, _, _)
Lexical(s, pos, ctx) ==
  IF pos >= Len(s)
  THEN [net |-> 0, open |-> IF ctx = "string" THEN 1 ELSE 0]
  ELSE IF ctx = "comment"
  THEN Lexical(s, pos + 1, IF At(s, pos) = "\n" THEN "code" ELSE "comment")
  ELSE IF ctx = "string"
  THEN IF At(s, pos) = "\"" THEN Lexical(s, pos + 1, "code")
       ELSE IF At(s, pos) = "\\" THEN Lexical(s, pos + 2, "string")
       ELSE Lexical(s, pos + 1, "string")
  ELSE IF At(s, pos) = "\"" THEN Lexical(s, pos + 1, "string")
  ELSE IF \/ At(s, pos) = ";"
          \/ (At(s, pos) = "#" /\ pos + 1 < Len(s) /\ At(s, pos + 1) = "!")
  THEN Lexical(s, pos + 1, "comment")
  ELSE LET rest == Lexical(s, pos + 1, "code") IN
       [rest EXCEPT !.net = @ + (IF At(s, pos) = "(" THEN 1
                                 ELSE IF At(s, pos) = ")" THEN -1 ELSE 0)]

\* tokenize() has returned its token list
Returned == tz.done /\ ~tz.threw

\* C11 (as stated): when tokenize returns, unclosed equals the number of (
\* characters minus the number of ) characters of the whole buffer, plus the
\* number of string literals left open.
C11_UnclosedCountsWholeBuffer ==
  Returned =>
    tz.unclosed = CountChar(src, "(") - CountChar(src, ")")
                    + Lexical(src, 0, "code").open

\* C11 (amended): when tokenize returns, unclosed equals the number of (
\* minus the number of ) that stand outside string literals and comments,
\* plus one when the buffer ends inside a string literal.
C11_UnclosedCountsOutsideLiterals ==
  Returned =>
    tz.unclosed = Lexical(src, 0, "code").net + Lexical(src, 0, "code").open

\* tokenize returned on a buffer that has a ( inside a closed string literal
C11_Witness ==
  /\ Returned
  /\ CountChar(src, "(") = 1
  /\ Lexical(src, 0, "code").net = 0
  /\ Lexical(src, 0, "code").open = 0
  /\ CountChar(src, "\"") = 2
  /\ tz.unclosed = 0

\* C12 (as stated): tokenize raises no error, whatever the buffer: the
\* empty buffer and a buffer ending in a backslash inside a string literal
\* included.
C12_TokenizerTotal == ~tz.threw

\* the value at address a of heap h is built only from ints, symbols and
\* lists
RECURSIVE Plain(_, _)
Plain(h, a) ==
  \/ h[a].type \in {"int", "symbol"}
  \/ (h[a].type = "list" /\ \A i \in 1..Len(h[a].l) : Plain(h, h[a].l[i]))

\* the printed form was read and its first form is structurally the value
ReadsBackEqual ==
  /\ rt.step = "read"
  /\ rt.form # 0
  /\ SameForm(heap, rt.val, heap, rt.form)

C14_InterningStable ==
  /\ \A i, j \in 1..Len(calls) :
       (calls[i].name = calls[j].name) <=> (calls[i].code = calls[j].code)
  /\ \A i \in 1..Len(calls) : symname[calls[i].code + 1] = calls[i].name
  /\ \A n \in DOMAIN symcode :
       symcode[n] < Len(symname) /\ symname[symcode[n] + 1] = n
  /\ \A n1, n2 \in DOMAIN symcode : symcode[n1] = symcode[n2] => n1 = n2

\* a new name was interned, then another new name, then the first again,
\* after a name init() had interned
C14_Witness ==
  /\ Len(calls) = 3
  /\ calls[1].name = "alpha"
  /\ calls[2].name = "beta"
  /\ calls[3].name = "alpha"
  /\ calls[1].code = Len(init.symname)
  /\ calls[2].code = calls[1].code + 1
  /\ calls[3].code = calls[1].code
  /\ "def" \in DOMAIN symcode

\* the cell the global environment binds name to
GlobalCell(name) == EnvGet(frames, global_env, ToCodeValue(symcode, name))

\* name is bound in the global environment to a list cell
BoundToList(name) == Bound(name) /\ heap[GlobalCell(name)].type = "list"

\* machine r is the heap after one element was appended in place to cell a:
\* the cell holds its earlier elements in order and then one fresh cell,
\* and no cell that existed before has changed but a
AppendedInPlace(r, a) ==
  /\ Len(r.heap[a].l) = Len(heap[a].l) + 1
  /\ SubSeq(r.heap[a].l, 1, Len(heap[a].l)) = heap[a].l
  /\ r.heap[a].l[Len(r.heap[a].l)] > Len(heap)
  /\ r.heap[a].type = heap[a].type
  /\ \A b \in 1..Len(heap) : b # a => r.heap[b] = heap[b]
  /\ SubSeq(r.frames, 1, Len(frames)) = frames

\* (push-back! name 4) evaluated in this state appends a fresh int 4 in
\* place and returns the cell
PushAppends(name, r) ==
  /\ ReturnsType(r, "list")
  /\ Value(r) = GlobalCell(name)
  /\ AppendedInPlace(r, GlobalCell(name))
  /\ r.heap[r.heap[GlobalCell(name)].l[Len(heap[GlobalCell(name)].l) + 1]]
       = NodeInt(4)

\* the programs that push onto the list bound to name, of length n, and
\* look at it afterwards
PushThenLength(name) ==
  "(push-back! " \o name \o " 4) (length " \o name \o ")"

PushThroughParameter(name) ==
  "((fn (l) (push-back! l 4) (length " \o name \o ")) " \o name \o ")"

PushThenChange(name, n) ==
  "(def v 7) (push-back! " \o name \o " v) (++ v) (nth "
    \o IntToStr(n) \o " " \o name \o ")"

\* C15: in every reachable state and for every name bound to a list cell,
\* (push-back! L 4) appends in place: the cell keeps its earlier elements
\* in order and gets one new last element, a fresh cell holding the int 4;
\* the length read afterwards, through the name or through a function
\* parameter bound to the same cell, is one larger; an element pushed from
\* a variable keeps its value when the variable's cell is changed in place
\* afterwards; and (def xs (list 1 2 3)) (push-back! xs 4) (length xs)
\* yields the int 4.
C15_PushBackAppendsInPlace ==
  ~ub =>
    /\ \A name \in {"xs", "ys"} :
         BoundToList(name) =>
           /\ PushAppends(name,
                eval_string(Machine, "(push-back! " \o name \o " 4)"))
           /\ ReturnsInt(eval_string(Machine, PushThenLength(name)),
                         Len(heap[GlobalCell(name)].l) + 1)
           /\ ReturnsInt(eval_string(Machine, PushThroughParameter(name)),
                         Len(heap[GlobalCell(name)].l) + 1)
           /\ ReturnsInt(
                eval_string(Machine,
                  PushThenChange(name, Len(heap[GlobalCell(name)].l))), 7)
    /\ ReturnsInt(eval_string(Machine,
         "(def xs (list 1 2 3)) (push-back! xs 4) (length xs)"), 4)

\* (push-back! xs 4) has just been evaluated on the list (1 2 3)
C15_Witness ==
  /\ ~ub
  /\ last = LinePush
  /\ BoundToList("xs")
  /\ Len(heap[GlobalCell("xs")].l) = 4
  /\ heap[heap[GlobalCell("xs")].l[4]] = NodeInt(4)
  /\ heap[heap[GlobalCell("xs")].l[3]] = NodeInt(3)
  /\ c.v = GlobalCell("xs")

\* the call that produced machine r returned a list of the ints of seq
ReturnsIntList(r, seq) ==
  /\ ReturnsType(r, "list")
  /\ Len(r.heap[Value(r)].l) = Len(seq)
  /\ \A i \in 1..Len(seq) : r.heap[r.heap[Value(r)].l[i]] = NodeInt(seq[i])

\* C16 (as stated): with only the bindings init installed in force (map not
\* defined by the program), (map (fn (x) (* x x)) (list 1 2 3)) returns the
\* list (1 4 9).
C16_MapSquares ==
  (~ub /\ ~Bound("map")) =>
     ReturnsIntList(eval_string(Machine, LineMap), <<1, 4, 9>>)

\* the coercions the language defines: a double is truncated, a bool is 0
\* or 1
AsInt(n) == IF n.type = "double" THEN TruncDiv(n.u, DScale) ELSE n.u

AsDouble(n) == IF n.type = "double" THEN n.u ELSE n.u * DScale

\* the operands i.. folded into acc, all of them ints or all of them doubles
RECURSIVE FoldAsInt(_, _, _, _)
FoldAsInt(op, ns, i, acc) ==
  IF i > Len(ns) THEN acc
  ELSE FoldAsInt(op, ns, i + 1,
         CASE op = "builtin_plus" -> acc + AsInt(ns[i])
           [] op = "builtin_minus" -> acc - AsInt(ns[i])
           [] OTHER -> acc * AsInt(ns[i]))

RECURSIVE FoldAsDouble(_, _, _, _)
FoldAsDouble(op, ns, i, acc) ==
  IF i > Len(ns) THEN acc
  ELSE FoldAsDouble(op, ns, i + 1,
         CASE op = "builtin_plus" -> acc + AsDouble(ns[i])
           [] op = "builtin_minus" -> acc - AsDouble(ns[i])
           [] OTHER -> TruncDiv(acc * AsDouble(ns[i]), DScale))

\* the operand nodes of the call, in order
Operands == [i \in 1..Len(call.args) |-> heap[call.args[i]]]

\* C17 (as stated): +, -, * applied to at least one operand return, when
\* the first operand is an int, the int obtained by coercing every later
\* operand to int, and otherwise the double obtained by coercing every
\* operand, the first included, to double (a bool counting as 0 or 1).
C17_ModeByFirstOperand ==
  call.op # "none" =>
    /\ ~ub
    /\ c.tag = "ret"
    /\ heap[c.v] =
         IF Operands[1].type = "int"
         THEN NodeInt(FoldAsInt(call.op, Operands, 2, Operands[1].u))
         ELSE NodeDouble(FoldAsDouble(call.op, Operands, 2,
                                      AsDouble(Operands[1])))

\* the instructions the claim gives `main` for these imports and contents
DriverMain(contents, imports) ==
  <<[op |-> "call", callee |-> "paren_init", args |-> <<>>]>>
    \o [i \in 1..Len(imports) |->
          [op |-> "call", callee |-> "paren_import",
           args |-> <<Absolute(imports[i])>>]]
    \o <<[op |-> "call", callee |-> "paren_eval_string",
          args |-> <<contents>>],
         [op |-> "ret", callee |-> "", args |-> <<0>>]>>

\* C18: at every point of CreateMain the instructions emitted so far are
\* the first ones of: a call of paren_init, one call of paren_import per
\* import in the order the imports were listed, one call of
\* paren_eval_string with the source text, and a return of 0; when
\* CreateMain is done `main` holds exactly these.
C18_DriverCallOrder ==
  cm.pc # "none" =>
    /\ Len(cm.body) <= Len(DriverMain(cm.contents, cm.imports))
    /\ cm.body = SubSeq(DriverMain(cm.contents, cm.imports), 1, Len(cm.body))
    /\ (cm.pc = "done" => cm.body = DriverMain(cm.contents, cm.imports))

\* CreateMain is done for two different imports
C18_Witness ==
  /\ cm.pc = "done"
  /\ Len(cm.imports) = 2
  /\ cm.imports[1] # cm.imports[2]
  /\ Len(cm.body) = 5
  /\ cm.body[2].callee = "paren_import"
  /\ cm.body[4].callee = "paren_eval_string"

\* the option written as `word` takes the element after it as its value
TakesValue(word) ==
  LET nm == getArgName(parser, word) IN
  /\ nm.found
  /\ nm.name \in parser.opt_args_
  /\ parser.known_args_[nm.name].action \in {"STORE", "APPEND"}

\* the positions of argvec, from j on, that hold an option: neither a
\* non-option nor the value of the option before it
RECURSIVE OptionPositions(_, _)
OptionPositions(argvec, j) ==
  IF j > Len(argvec) THEN {}
  ELSE IF ~isOptArg(argvec[j]) THEN OptionPositions(argvec, j + 1)
  ELSE {j} \cup OptionPositions(argvec, IF TakesValue(argvec[j]) THEN j + 2
                                                                ELSE j + 1)

\* the non-option arguments of argvec that no option takes as its value
NonOptions(argvec) ==
  LET opts == OptionPositions(argvec, 2)
      free == {j \in 2..Len(argvec) :
                 /\ j \notin opts
                 /\ ~(j - 1 \in opts /\ TakesValue(argvec[j - 1]))}
      RECURSIVE InOrder(_, _)
      InOrder(j, acc) ==
        IF j > Len(argvec) THEN acc
        ELSE InOrder(j + 1, IF j \in free THEN Append(acc, argvec[j]) ELSE acc)
  IN  InOrder(2, <<>>)

\* the namespace gives `name` the string `val`
Stored(ns, name, val) == name \in DOMAIN ns /\ ns[name] = AnyString(val)

\* C19: when ParseArgs returns, the k-th argument that is neither an option
\* nor the value an option consumed is the value of the k-th declared
\* positional, wherever options and their values stand among them.
C19_PositionalsInDeclarationOrder ==
  ap.status = "returned" =>
    LET given == NonOptions(argv) IN
    \A n \in 1..Len(given) :
      /\ n <= Len(parser.pos_args_)
      /\ Stored(ap.ns, parser.pos_args_[n], given[n])

\* both positionals were given, with an option and its value after the first
\* argument and something after that value
C19_Witness ==
  /\ ap.status = "returned"
  /\ Len(NonOptions(argv)) = 2
  /\ Stored(ap.ns, "pos2", NonOptions(argv)[2])
  /\ \E j \in OptionPositions(argv, 2) :
       TakesValue(argv[j]) /\ j > 2 /\ j + 1 < Len(argv)

\* the ways of writing the STORE option `name`
Forms(name) ==
  {"--" \o name} \cup
  {"-" \o ch : ch \in {x \in DOMAIN parser.short_name_map_ :
                         parser.short_name_map_[x] = name}}

\* the positions where the option `name` is written, as an option
Written(argvec, name) ==
  {j \in OptionPositions(argvec, 2) : argvec[j] \in Forms(name)}

\* argvec with the option at j written as `form`
Rewritten(argvec, j, form) == [argvec EXCEPT ![j] = form]

\* argvec without the option at j and its value
Without(argvec, j) ==
  SubSeq(argvec, 1, j - 1) \o SubSeq(argvec, j + 2, Len(argvec))

\* the option at j and its value moved before every other argument
MovedFirst(argvec, j) ==
  <<argvec[1], argvec[j], argvec[j + 1]>> \o Tail(Without(argvec, j))

\* the option at j and its value moved after every other argument
MovedLast(argvec, j) == Without(argvec, j) \o <<argvec[j], argvec[j + 1]>>

\* ParseArgs returns the namespace ns for argvec
Gives(argvec, ns) ==
  LET a == ParseArgs(parser, argvec, ap.ndebug) IN
  a.status = "returned" /\ a.ns = ns

\* C20: when ParseArgs returns and a STORE option was written once, an argv
\* element follows it and is its value, and writing it in another of its forms
\* (long or short), before every other argument or after them, gives the same
\* namespace.
C20_StoreTakesNextElement ==
  ap.status = "returned" =>
    \A name \in {n \in parser.opt_args_ : isStore(parser.known_args_[n])} :
      \A j \in Written(argv, name) :
        Written(argv, name) = {j} =>
          /\ j < Len(argv)
          /\ Stored(ap.ns, name, argv[j + 1])
          /\ \A form \in Forms(name) : Gives(Rewritten(argv, j, form), ap.ns)
          /\ Gives(MovedFirst(argv, j), ap.ns)
          /\ Gives(MovedLast(argv, j), ap.ns)

\* the short form was written after a positional, with another argument
\* after its value
C20_Witness ==
  /\ ap.status = "returned"
  /\ Written(argv, "opt") = {3}
  /\ argv[3] = "-o"
  /\ Stored(ap.ns, "opt", argv[4])
  /\ Stored(ap.ns, "pos1", argv[2])
  /\ Len(argv) > 4

\* the elements of argvec right after the positions js, in increasing order
\* of position
RECURSIVE Following(_, _)
Following(argvec, js) ==
  IF js = {} THEN <<>>
  ELSE LET j == CHOOSE x \in js : \A y \in js : x <= y IN
       <<argvec[j + 1]>> \o Following(argvec, js \ {j})

\* some positional holds the string val
StoredInPositional(ns, val) ==
  \E n \in 1..Len(parser.pos_args_) : Stored(ns, parser.pos_args_[n], val)

\* C21: when ParseArgs returns and an APPEND option was written, in its long
\* or its short form, its value is the list of the argv elements right after
\* its occurrences, in the order of the occurrences; an occurrence consumes
\* that one element only: a non-option argument after it is the value of a
\* positional.
C21_AppendCollectsInOrder ==
  ap.status = "returned" =>
    \A name \in {n \in parser.opt_args_ : isAppend(parser.known_args_[n])} :
      LET js == Written(argv, name) IN
      js # {} =>
        /\ \A j \in js : j < Len(argv)
        /\ name \in DOMAIN ap.ns
        /\ ap.ns[name] = AnyList(Following(argv, js))
        /\ \A j \in js :
             (j + 2 <= Len(argv) /\ ~isOptArg(argv[j + 2])) =>
               StoredInPositional(ap.ns, argv[j + 2])

\* the option was written twice, once in each form, with a non-option
\* argument after the first value: the list has the two values in order and
\* the argument is a positional
C21_Witness ==
  /\ ap.status = "returned"
  /\ Len(argv) = 6
  /\ argv[2] = "--list"
  /\ ~isOptArg(argv[4])
  /\ argv[5] = "-l"
  /\ ap.ns["list"] = AnyList(<<argv[3], argv[6]>>)
  /\ Stored(ap.ns, "pos1", argv[4])

\* the store-true options of the parser
StoreTrueOptions ==
  {n \in parser.opt_args_ : parser.known_args_[n].action = "STORE_TRUE"}

\* C22: when ParseArgs returns, a store-true option holds the bool true if
\* it was written on the command line and the bool false if it was not.
C22_StoreTrueValue ==
  ap.status = "returned" =>
    \A name \in StoreTrueOptions :
      /\ name \in DOMAIN ap.ns
      /\ ap.ns[name] = AnyBool(Written(argv, name) # {})

\* one store-true option was written and another was not
C22_Witness ==
  /\ ap.status = "returned"
  /\ Written(argv, "flag") # {}
  /\ ap.ns["flag"] = AnyBool(TRUE)
  /\ Written(argv, "help") = {}
  /\ ap.ns["help"] = AnyBool(FALSE)

\* the argument `name` does not occur on the command line: an option is not
\* written, a positional has no non-option argument left for it
Absent(argvec, name) ==
  IF name \in parser.opt_args_ THEN Written(argvec, name) = {}
  ELSE \A n \in 1..Len(parser.pos_args_) :
         parser.pos_args_[n] = name => Len(NonOptions(argvec)) < n

\* C23: when ParseArgs returns, an argument that does not occur on the
\* command line is in the namespace exactly if it has a default, and then
\* holds that default.
C23_AbsentHoldsDefault ==
  ap.status = "returned" =>
    \A name \in DOMAIN parser.known_args_ :
      Absent(argv, name) =>
        LET def == parser.known_args_[name].default IN
        /\ (name \in DOMAIN ap.ns) <=> def.has
        /\ def.has => ap.ns[name] = def.any

\* the APPEND option without a default is absent from the namespace, the one
\* with setDefaultList holds the empty list, and something else was given
C23_Witness ==
  /\ ap.status = "returned"
  /\ Absent(argv, "list") /\ "list" \notin DOMAIN ap.ns
  /\ Absent(argv, "deflist") /\ ap.ns["deflist"] = AnyList(<<>>)
  /\ Absent(argv, "pos2") /\ "pos2" \notin DOMAIN ap.ns
  /\ ~Absent(argv, "pos1")

\* C30: ParseArgs never reads argv at an index greater than or equal to
\* argc.
C30_NeverReadsBeyondArgc == ~ap.beyond

\* what the call that produced machine r wrote to the output, piece by piece
Printed(r) ==
  [j \in 1..(Len(r.out) - Len(out)) |-> r.out[Len(out) + j].text]

\* the call that produced machine r returned the int n after writing texts
Traces(r, texts, n) == ReturnsInt(r, n) /\ Printed(r) = texts

\* head, then operands from the left, then the builtin
TraceBuiltin ==
  Traces(eval_string(Machine,
           "((begin (pr 0) +) (begin (pr 1) 5) (begin (pr 2) 2))"),
         <<"0", "1", "2">>, 7)

\* head, then operands from the left, then the body of the fn in order
TraceFn == Traces(eval_string(Machine, LineTrace), <<"0", "1", "2", "3">>, 3)

\* the operand is evaluated where the call is written: p1 is the caller's
TraceCallerEnv ==
  Traces(eval_string(Machine,
           "(def idf (fn (p1) 0)) ((fn (p1) (idf (begin (pr p1) p1))) 7)"),
         <<"7">>, 0)

\* begin and the body of while in source order, turn after turn
TraceBodies ==
  Traces(eval_string(Machine,
           "(def j1 0) (while (< j1 2) (begin (pr \"a\") (pr \"b\")) (pr j1) (++ j1)) 9"),
         <<"a", "b", "0", "a", "b", "1">>, 9)

\* C24: in every state the REPL reaches, a list form whose head evaluates to
\* a builtin or a fn evaluates the head, then each operand once from left to
\* right in the caller's environment, then applies the function; begin, the
\* body of while and the body of a fn evaluate their sub-forms in source
\* order.
C24_EvaluationOrder ==
  ~ub => TraceBuiltin /\ TraceFn /\ TraceCallerEnv /\ TraceBodies

\* the REPL evaluated the traced call: head, operands, body, then the value
C24_Witness ==
  /\ ~ub
  /\ last = LineTrace
  /\ nevals = MaxEvals
  /\ Len(out) >= 5
  /\ [j \in 1..5 |-> out[Len(out) - 5 + j].text]
       = <<"0", "1", "2", "3", "3 : int\n">>

\* the call that produced machine r returned the shared nil: the symbol
\* looked up has no binding in the chain
ReturnsUnbound(r) == Done(r) /\ ~r.ub /\ Value(r) = nil

\* a binding of the caller's frame is not visible in the callee
ScopeCaller == ReturnsUnbound(eval_string(Machine, LineScope))

\* a binding made by another application of the same fn is not visible
ScopeOtherApplication ==
  ReturnsUnbound(eval_string(Machine,
    "(def k1 (fn (a1) (if a1 (begin (def z1 9) (k1 false)) z1))) (k1 true)"))

\* a free variable is found in the frame of the definition site, whatever
\* the global frame or the caller's frame bind under that name
ScopeDefinitionSite ==
  ReturnsInt(eval_string(Machine,
    "(def mk1 (fn (v1) (fn (w1) (+ v1 w1)))) (def v1 100) ((fn (v1) ((mk1 1) 2)) 50)"),
    3)

\* each application starts from a frame of its own
ScopeFreshFrame ==
  ReturnsInt(eval_string(Machine,
    "(def cnt (fn () (if (== 7 z2) 1 (begin (def z2 7) 0)))) (cnt) (cnt)"),
    0)

\* C25: in every state the REPL reaches, a free variable of a fn body
\* resolves through the frame of the call and then through the chain
\* captured where the fn was made: bindings of the caller's frame and of
\* other applications of the fn are not visible.
C25_LexicalScope ==
  ~ub => ScopeCaller /\ ScopeOtherApplication /\ ScopeDefinitionSite
         /\ ScopeFreshFrame

\* the REPL evaluated the call: a frame binds q1 to 5, the callee looked q1
\* up and got the shared nil
C25_Witness ==
  /\ ~ub
  /\ last = LineScope
  /\ c.tag = "ret" /\ c.v = nil
  /\ \E f \in 2..Len(frames) :
       /\ ToCodeValue(symcode, "q1") \in DOMAIN frames[f].env
       /\ heap[frames[f].env[ToCodeValue(symcode, "q1")]].u = 5

\* the call that produced machine r returned the bool b after writing texts
TracesBool(r, texts, b) == ReturnsBool(r, b) /\ Printed(r) = texts

\* C26: in every state the REPL reaches, `(if C T E)` evaluates exactly one
\* of T and E: E (or nil without E) when C evaluates to nil or to the bool
\* false, T when C evaluates to the empty list.
C26_IfBoolContext ==
  ~ub =>
    /\ Traces(eval_string(Machine, "(if un1 (begin (pr \"t\") 1) (begin (pr \"e\") 2))"),
              <<"e">>, 2)
    /\ Traces(eval_string(Machine, "(if false (begin (pr \"t\") 1) (begin (pr \"e\") 2))"),
              <<"e">>, 2)
    /\ ReturnsType(eval_string(Machine, "(if false 1)"), "nil")
    /\ Traces(eval_string(Machine, "(if (list) (begin (pr \"t\") 1) (begin (pr \"e\") 2))"),
              <<"t">>, 1)

\* C27: in every state the REPL reaches, && and || evaluate their operands
\* from the left and no operand after the one that decides; && returns the
\* bool false at the first false operand and the bool true otherwise, ||
\* the bool true at the first true operand and the bool false otherwise,
\* whatever the operands' values are.
C27_ShortCircuit ==
  ~ub =>
    /\ TracesBool(eval_string(Machine,
          "(&& (begin (pr 1) true) (begin (pr 2) false) (begin (pr 3) true))"),
          <<"1", "2">>, FALSE)
    /\ TracesBool(eval_string(Machine,
          "(|| (begin (pr 1) false) (begin (pr 2) true) (begin (pr 3) true))"),
          <<"1", "2">>, TRUE)
    /\ TracesBool(eval_string(Machine,
          "(&& (begin (pr 1) true) (begin (pr 2) true))"), <<"1", "2">>, TRUE)
    /\ TracesBool(eval_string(Machine,
          "(|| (begin (pr 1) false) (begin (pr 2) false))"), <<"1", "2">>,
          FALSE)
    /\ ReturnsBool(eval_string(Machine, "(&& 1 1)"), TRUE)
    /\ ReturnsBool(eval_string(Machine, "(|| 0 1)"), TRUE)

\* the fn bound to `name` in the global frame of machine r
GlobalFn(r, name) ==
  EnvGet(r.frames, global_env, ToCodeValue(r.symcode, name))

\* C28: in every state the REPL reaches, a fn that is called keeps the forms
\* of its body, literal constants included, as they were made, and two calls
\* with the same arguments in the same environment give equal results.
C28_ProgramUnchanged ==
  ~ub =>
    LET made   == eval_string(Machine, "(def lit1 (fn () (++ 1)))")
        called == eval_string(made, "(lit1)")
    IN
    /\ Done(called) /\ ~called.ub
    /\ SameForm(made.heap, GlobalFn(made, "lit1"),
                called.heap, GlobalFn(called, "lit1"))
    /\ ReturnsBool(eval_string(made,
          "(def r1 (+ 0 (lit1))) (def r2 (+ 0 (lit1))) (! (< r1 r2))"), TRUE)

\* C29: in every state the REPL reaches, joining a thread through its
\* binding and then through a copy of the handle made by def or by set
\* frees the thread once: the second join does nothing and returns nil.
C29_JoinedAtMostOnce ==
  ~ub =>
    /\ ReturnsUnbound(eval_string(Machine,
          "(def ta (std::thread 1)) (join ta) (join ta)"))
    /\ ReturnsUnbound(eval_string(Machine,
          "(def ta (std::thread 1)) (def tb ta) (join ta) (join tb)"))
    /\ ReturnsUnbound(eval_string(Machine,
          "(def ta (std::thread 1)) (def tb 0) (set tb ta) (join ta) (join tb)"))

====
